---- MODULE Spec2Model ----
(***************************************************************************)
(* Model of src/lambda/handler.py: the prompt-injection detection Lambda.  *)
(*                                                                         *)
(* A Python str is modelled as a sequence of chunks; a chunk is a TLA+     *)
(* string standing for the run of characters it spells.  The chunks are    *)
(* chosen so that every literal the code looks for ("```json", a newline,  *)
(* a JSON delimiter, a quote) is a whole number of chunks, so scanning a   *)
(* text chunk by chunk decides what scanning it character by character     *)
(* decides.  The backtick, which a TLA+ string cannot hold, is spelled     *)
(* Backtick.                                                               *)
(***************************************************************************)
EXTENDS Integers, Sequences, FiniteSets, TLC

\* ------------------------------------------------------------------------
\* Python values: [t |-> type(x).__name__, v |-> payload]
\* ------------------------------------------------------------------------
PyBool(b) == [t |-> "bool", v |-> b]
PyStr(s) == [t |-> "str", v |-> s]
PyInt(n) == [t |-> "int", v |-> n]
PyNaN == [t |-> "float", v |-> "nan"]
PyNone == [t |-> "NoneType", v |-> "None"]
PyList(items) == [t |-> "list", v |-> items]
\* a dict is the sequence of its <<key, value>> items in insertion order
PyDict(items) == [t |-> "dict", v |-> items]

DictKeys(d) == [i \in 1..Len(d.v) |-> d.v[i][1]]
DictKeySet(d) == {d.v[i][1] : i \in 1..Len(d.v)}
DictGet(d, k) == d.v[CHOOSE i \in 1..Len(d.v) : d.v[i][1] = k][2]
\* the first value of a key kept, as by setdefault
DictSetDefault(items, k, val) ==
    IF \E i \in 1..Len(items) : items[i][1] = k
    THEN items
    ELSE Append(items, <<k, val>>)

\* d[k] = val: a key already present keeps its place and takes the new value
DictSetItem(items, k, val) ==
    IF \E i \in 1..Len(items) : items[i][1] = k
    THEN [i \in 1..Len(items) |-> IF items[i][1] = k THEN <<k, val>> ELSE items[i]]
    ELSE Append(items, <<k, val>>)

\* ------------------------------------------------------------------------
\* str.strip(), and the characters it and the regex class \s take for space
\* ------------------------------------------------------------------------
PyWhitespace == {" ", "\t", "\n", "\r", "\f"}

RECURSIVE LStrip(_)
LStrip(s) == IF s # <<>> /\ Head(s) \in PyWhitespace THEN LStrip(Tail(s)) ELSE s

RECURSIVE RStrip(_)
RStrip(s) ==
    IF s # <<>> /\ s[Len(s)] \in PyWhitespace
    THEN RStrip(SubSeq(s, 1, Len(s) - 1))
    ELSE s

Strip(s) == RStrip(LStrip(s))

StartsWithAt(s, i, lit) ==
    /\ i + Len(lit) - 1 <= Len(s)
    /\ SubSeq(s, i, i + Len(lit) - 1) = lit

SetMax(S) == CHOOSE x \in S : \A y \in S : y <= x
SetMin(S) == CHOOSE x \in S : \A y \in S : x <= y

\* ------------------------------------------------------------------------
\* re.match(json_pattern, output, re.DOTALL), json_pattern being
\* ^ fence json \s* \n (.*?) \n fence \s* $
\* ------------------------------------------------------------------------
Backtick == "<backtick>"
Fence == <<Backtick, Backtick, Backtick>>
OpenFence == Fence \o <<"json">>
CloseFence == <<"\n">> \o Fence

\* a payload in a json code fence
InFence(payload) == OpenFence \o <<"\n">> \o payload \o CloseFence

\* the literals of json_pattern: what opens the match and what closes it
PatternOpen == Fence \o <<"json">>
PatternClose == <<"\n">> \o Fence

AllSpace(s, i, j) == \A k \in i..j : s[k] \in PyWhitespace

\* the tail without its anchor: a closing fence, whatever follows it
ClosesAtUnanchored(s, e) == StartsWithAt(s, e, PatternClose)

\* the pattern's tail (newline, fence, \s*, $) matches from e: the closing
\* fence, then only \s up to the end
ClosesAt(s, e) ==
    /\ StartsWithAt(s, e, PatternClose)
    /\ AllSpace(s, e + Len(PatternClose), Len(s))

\* the newline that ends \s*\n sits at p: only \s between the tag and p
OpensAt(s, p) ==
    /\ p <= Len(s)
    /\ s[p] = "\n"
    /\ AllSpace(s, Len(PatternOpen) + 1, p - 1)

NoMatch == [matched |-> FALSE, group1 |-> <<>>]

\* the dot of a pattern compiled without re.DOTALL stops at a newline
DotMatchesNoNewline(c) == c # "\n"

\* re.DOTALL: the dot of (.*?) matches every character, newlines too
DotMatches(c) == TRUE

\* \s* is greedy (the last newline that lets the rest match), (.*?) is lazy
\* (the first closing fence after it that is followed by \s*$).
JsonPatternMatch(s) ==
    IF ~StartsWithAt(s, 1, PatternOpen) THEN NoMatch
    ELSE LET starts == {p \in (Len(PatternOpen) + 1)..Len(s) :
                            /\ OpensAt(s, p)
                            /\ \E e \in (p + 1)..Len(s) : ClosesAt(s, e)}
         IN  IF starts = {} THEN NoMatch
             ELSE LET p == SetMax(starts)
                      e == SetMin({x \in (p + 1)..Len(s) : ClosesAt(s, x)})
                  IN  IF \A k \in (p + 1)..(e - 1) : DotMatches(s[k])
                      THEN [matched |-> TRUE, group1 |-> SubSeq(s, p + 1, e - 1)]
                      ELSE NoMatch

\* ------------------------------------------------------------------------
\* json.loads(json_str): the decoder of the standard library
\* ------------------------------------------------------------------------
JsonWhitespace == {" ", "\t", "\n", "\r"}
ControlChunks == {"\t", "\n", "\r", "\f"}
Digit == "1"

\* The decoder recurses once for each array or object it descends into, and
\* the interpreter raises RecursionError when its frames reach
\* sys.getrecursionlimit(), 1000 unless the process changes it (the frames of
\* the caller count too, so the decoder gets a little less).
RecursionLimit == 1000

\* one chunk for a run of RecursionLimit opening brackets
DeepOpen == "<RecursionLimit x [>"
Nesting(c) == IF c = DeepOpen THEN RecursionLimit ELSE IF c \in {"{", "["} THEN 1 ELSE 0

Decoded(val, end) == [st |-> "ok", val |-> val, end |-> end, msg |-> ""]
DecodeError(msg, pos) == [st |-> "JSONDecodeError", val |-> PyNone, end |-> pos, msg |-> msg]
RecursionError == [st |-> "RecursionError", val |-> PyNone, end |-> 0, msg |-> ""]

RECURSIVE SkipWhitespace(_, _)
SkipWhitespace(s, i) ==
    IF i <= Len(s) /\ s[i] \in JsonWhitespace THEN SkipWhitespace(s, i + 1) ELSE i

\* a backslash escape inside a string literal and the character it decodes to
EscapeChunks == {"\\n"}
Unescape(c) == IF c = "\\n" THEN "\n" ELSE c

\* py_scanstring(s, end), strict: s[begin - 1] is the opening quote
RECURSIVE ScanString(_, _, _, _)
ScanString(s, begin, i, acc) ==
    IF i > Len(s) THEN DecodeError("Unterminated string starting at", begin - 1)
    ELSE IF s[i] = "\"" THEN Decoded(PyStr(acc), i + 1)
    ELSE IF s[i] \in ControlChunks THEN DecodeError("Invalid control character at", i)
    ELSE ScanString(s, begin, i + 1, Append(acc, Unescape(s[i])))

RECURSIVE ScanDigits(_, _, _)
ScanDigits(s, i, n) ==
    IF i <= Len(s) /\ s[i] = Digit THEN ScanDigits(s, i + 1, 10 * n + 1)
    ELSE Decoded(PyInt(n), i)

RECURSIVE ScanOnce(_, _, _)
RECURSIVE JSONObject(_, _, _, _)
RECURSIVE JSONArray(_, _, _, _)

\* scanner._scan_once(string, idx)
ScanOnce(s, i, depth) ==
    IF i > Len(s) THEN DecodeError("Expecting value", i)
    ELSE IF s[i] = "\"" THEN ScanString(s, i + 1, i + 1, <<>>)
    ELSE IF Nesting(s[i]) > 0 /\ depth + Nesting(s[i]) >= RecursionLimit THEN RecursionError
    ELSE IF s[i] = "{" THEN
        LET j == SkipWhitespace(s, i + 1)
        IN  IF j <= Len(s) /\ s[j] = "}" THEN Decoded(PyDict(<<>>), j + 1)
            ELSE JSONObject(s, j, depth + 1, <<>>)
    ELSE IF s[i] = "[" THEN
        LET j == SkipWhitespace(s, i + 1)
        IN  IF j <= Len(s) /\ s[j] = "]" THEN Decoded(PyList(<<>>), j + 1)
            ELSE JSONArray(s, j, depth + 1, <<>>)
    ELSE IF s[i] = "null" THEN Decoded(PyNone, i + 1)
    ELSE IF s[i] = "true" THEN Decoded(PyBool(TRUE), i + 1)
    ELSE IF s[i] = "false" THEN Decoded(PyBool(FALSE), i + 1)
    ELSE IF s[i] = Digit THEN ScanDigits(s, i, 0)
    ELSE IF s[i] = "NaN" THEN Decoded(PyNaN, i + 1)
    ELSE DecodeError("Expecting value", i)

\* decoder.JSONObject: i is where the next member's key must start
JSONObject(s, i, depth, items) ==
    IF i > Len(s) \/ s[i] # "\""
    THEN DecodeError("Expecting property name enclosed in double quotes", i)
    ELSE LET key == ScanString(s, i + 1, i + 1, <<>>)
         IN  IF key.st # "ok" THEN key
             ELSE LET c == SkipWhitespace(s, key.end)
                  IN  IF c > Len(s) \/ s[c] # ":"
                      THEN DecodeError("Expecting ':' delimiter", c)
                      ELSE LET value == ScanOnce(s, SkipWhitespace(s, c + 1), depth)
                           IN  IF value.st # "ok" THEN value
                               ELSE LET items2 == DictSetItem(items, key.val.v, value.val)
                                        n == SkipWhitespace(s, value.end)
                                    IN  IF n <= Len(s) /\ s[n] = "}"
                                        THEN Decoded(PyDict(items2), n + 1)
                                        ELSE IF n > Len(s) \/ s[n] # ","
                                        THEN DecodeError("Expecting ',' delimiter", n)
                                        ELSE JSONObject(s, SkipWhitespace(s, n + 1), depth, items2)

\* decoder.JSONArray: i is where the next element must start
JSONArray(s, i, depth, items) ==
    LET value == ScanOnce(s, i, depth)
    IN  IF value.st # "ok" THEN value
        ELSE LET items2 == Append(items, value.val)
                 n == SkipWhitespace(s, value.end)
             IN  IF n <= Len(s) /\ s[n] = "]"
                 THEN Decoded(PyList(items2), n + 1)
                 ELSE IF n > Len(s) \/ s[n] # ","
                 THEN DecodeError("Expecting ',' delimiter", n)
                 ELSE JSONArray(s, SkipWhitespace(s, n + 1), depth, items2)

\* JSONDecoder.decode: one value, then nothing but whitespace
JsonLoads(s) ==
    LET obj == ScanOnce(s, SkipWhitespace(s, 1), 0)
    IN  IF obj.st # "ok" THEN obj
        ELSE IF SkipWhitespace(s, obj.end) # Len(s) + 1
        THEN DecodeError("Extra data", SkipWhitespace(s, obj.end))
        ELSE obj

\* ------------------------------------------------------------------------
\* validate_model_response(model_output)
\* ------------------------------------------------------------------------
\* what a call does: returns a value, or raises an exception
Returns(value) == [raised |-> "none", value |-> value]
Raises(exception) == [raised |-> exception, value |-> PyNone]

\* repr() of a str, for the strings the decoder can produce here
ReprStr(k) == <<"'">> \o [i \in 1..Len(k) |-> IF k[i] = "\n" THEN "\\n" ELSE k[i]] \o <<"'">>

RECURSIVE ReprItems(_)
ReprItems(keys) ==
    IF keys = <<>> THEN <<>>
    ELSE IF Len(keys) = 1 THEN ReprStr(keys[1])
    ELSE ReprStr(keys[1]) \o <<", ">> \o ReprItems(Tail(keys))

\* repr(list(parsed.keys()))
ReprList(keys) == <<"[">> \o ReprItems(keys) \o <<"]">>

KeySafe == <<"safe">>
KeyReasoning == <<"reasoning">>

Invalid(reason) ==
    Returns([valid |-> FALSE, reason |-> reason, parsed_json |-> PyNone])

\* the reconstruction written with a blank line after the tag
FencedTextBlankLine(json_str) ==
    <<Backtick, Backtick, Backtick, "json", "\n", "\n">> \o json_str
        \o <<"\n", Backtick, Backtick, Backtick>>

\* the f-string of line 383: fence, json, newline, json_str, newline, fence
FencedText(json_str) ==
    <<Backtick, Backtick, Backtick, "json", "\n">> \o json_str
        \o <<"\n", Backtick, Backtick, Backtick>>

\* isinstance(parsed, dict)
IsDict(parsed) == parsed.t = "dict"

\* the two keys required, others let through
KeysOkSuperset(parsed) == {KeySafe, KeyReasoning} \subseteq DictKeySet(parsed)

\* set(parsed.keys()) == {'safe', 'reasoning'}
KeysOk(parsed) == DictKeySet(parsed) = {KeySafe, KeyReasoning}

\* isinstance(value, int), which a bool passes too
IsInt(value) == value.t \in {"bool", "int"}

\* isinstance(parsed['safe'], bool)
IsBool(value) == value.t = "bool"

\* a str that is not empty
IsStrNonEmpty(value) == value.t = "str" /\ value.v # <<>>

\* isinstance(parsed['reasoning'], str)
IsStr(value) == value.t = "str"

\* the fenced reconstruction compared with all white space taken out
ExtraTextReasonLenient(output, matched, json_str) ==
    IF matched
    THEN IF SelectSeq(output, LAMBDA c : c \notin PyWhitespace)
                # SelectSeq(FencedText(json_str), LAMBDA c : c \notin PyWhitespace)
         THEN <<"Extra text detected outside JSON code fence">>
         ELSE <<>>
    ELSE IF output # json_str
         THEN <<"Extra text detected outside JSON">>
         ELSE <<>>

\* the reconstruction compared for unfenced texts only
ExtraTextReasonUnfencedOnly(output, matched, json_str) ==
    IF ~matched /\ output # json_str
    THEN <<"Extra text detected outside JSON">>
    ELSE <<>>

\* the two reasons of the reconstruction check, each in the other's branch
ExtraTextReasonSwapped(output, matched, json_str) ==
    IF matched
    THEN IF output # FencedText(json_str) /\ Strip(output) # Strip(FencedText(json_str))
         THEN <<"Extra text detected outside JSON">>
         ELSE <<>>
    ELSE IF output # json_str
         THEN <<"Extra text detected outside JSON code fence">>
         ELSE <<>>

\* lines 380-402: the reason to reject a text that holds more than the JSON, or
\* the JSON in its fence; <<>> when nothing else is there
ExtraTextReason(output, matched, json_str) ==
    IF matched
    THEN IF output # FencedText(json_str) /\ Strip(output) # Strip(FencedText(json_str))
         THEN <<"Extra text detected outside JSON code fence">>
         ELSE <<>>
    ELSE IF output # json_str
         THEN <<"Extra text detected outside JSON">>
         ELSE <<>>

\* the text around the payload checked before the keys and the types
ValidateModelResponseExtraFirst(model_output) ==
    LET output == Strip(model_output)
        match == JsonPatternMatch(output)
        json_str == IF match.matched THEN Strip(match.group1) ELSE output
        loaded == JsonLoads(json_str)
        parsed == loaded.val
    IN  IF loaded.st = "RecursionError" THEN Raises("RecursionError")
        ELSE IF loaded.st = "JSONDecodeError"
        THEN Invalid(<<"Invalid JSON: ", loaded.msg>>)
        ELSE IF ~IsDict(parsed)
        THEN Invalid(<<"JSON is not a dictionary">>)
        ELSE IF ExtraTextReason(output, match.matched, json_str) # <<>>
        THEN Invalid(ExtraTextReason(output, match.matched, json_str))
        ELSE IF ~KeysOk(parsed)
        THEN Invalid(<<"JSON has incorrect keys: ">> \o ReprList(DictKeys(parsed))
                     \o <<". Expected exactly: safe, reasoning">>)
        ELSE IF ~IsBool(DictGet(parsed, KeySafe))
        THEN Invalid(<<"\"safe\" value is not a boolean, got ",
                       DictGet(parsed, KeySafe).t>>)
        ELSE IF ~IsStr(DictGet(parsed, KeyReasoning))
        THEN Invalid(<<"\"reasoning\" value is not a string, got ",
                       DictGet(parsed, KeyReasoning).t>>)
        ELSE Returns([valid |-> TRUE, reason |-> <<"Valid response">>,
                      parsed_json |-> parsed])

\* the str(e) of a JSONDecodeError is its message followed by the place of the
\* error ("line 1 column 2 (char 1)"); the place is left out of the reason
ValidateModelResponse(model_output) ==
    LET output == Strip(model_output)
        match == JsonPatternMatch(output)
        json_str == IF match.matched THEN Strip(match.group1) ELSE output
        loaded == JsonLoads(json_str)
        parsed == loaded.val
    IN  IF loaded.st = "RecursionError" THEN Raises("RecursionError")
        ELSE IF loaded.st = "JSONDecodeError"
        THEN Invalid(<<"Invalid JSON: ", loaded.msg>>)
        ELSE IF ~IsDict(parsed)
        THEN Invalid(<<"JSON is not a dictionary">>)
        ELSE IF ~KeysOk(parsed)
        THEN Invalid(<<"JSON has incorrect keys: ">> \o ReprList(DictKeys(parsed))
                     \o <<". Expected exactly: safe, reasoning">>)
        ELSE IF ~IsBool(DictGet(parsed, KeySafe))
        THEN Invalid(<<"\"safe\" value is not a boolean, got ",
                       DictGet(parsed, KeySafe).t>>)
        ELSE IF ~IsStr(DictGet(parsed, KeyReasoning))
        THEN Invalid(<<"\"reasoning\" value is not a string, got ",
                       DictGet(parsed, KeyReasoning).t>>)
        ELSE IF ExtraTextReason(output, match.matched, json_str) # <<>>
        THEN Invalid(ExtraTextReason(output, match.matched, json_str))
        ELSE Returns([valid |-> TRUE, reason |-> <<"Valid response">>,
                      parsed_json |-> parsed])

\* ------------------------------------------------------------------------
\* The texts the upstream model may answer with
\* ------------------------------------------------------------------------
MaxMembers == 3
MaxNoise == 2

Q == "\""
StrLit(content) == <<Q>> \o content \o <<Q>>
MarkerPrefix == "Lambda deterministic failure: "

RECURSIVE Concat(_)
Concat(parts) == IF parts = <<>> THEN <<>> ELSE Head(parts) \o Concat(Tail(parts))

\* the layout of an object text: as json.dumps writes it with and without
\* spaces, and one member to a line
Styles == {"compact", "spaced", "pretty"}
AfterColon(style) == IF style = "compact" THEN <<>> ELSE <<" ">>
AfterComma(style) ==
    IF style = "compact" THEN <<>> ELSE IF style = "spaced" THEN <<" ">> ELSE <<"\n", " ">>
AfterOpen(style) == IF style = "pretty" THEN <<"\n", " ">> ELSE <<>>
BeforeClose(style) == IF style = "pretty" THEN <<"\n">> ELSE <<>>

\* a member is <<key content, value text>>
MemberText(m, style) == StrLit(m[1]) \o <<":">> \o AfterColon(style) \o m[2]

RECURSIVE JoinMembers(_, _)
JoinMembers(ms, style) ==
    IF ms = <<>> THEN <<>>
    ELSE IF Len(ms) = 1 THEN MemberText(ms[1], style)
    ELSE MemberText(ms[1], style) \o <<",">> \o AfterComma(style) \o JoinMembers(Tail(ms), style)

ObjectText(ms, style) ==
    IF ms = <<>> THEN <<"{", "}">>
    ELSE <<"{">> \o AfterOpen(style) \o JoinMembers(ms, style) \o BeforeClose(style) \o <<"}">>

\* string contents a reasoning may spell, with the str each decodes to
StrSpecs ==
    { [lit |-> <<"x">>, val |-> <<"x">>],
      [lit |-> <<>>, val |-> <<>>],
      [lit |-> <<"a", "\\n", "b">>, val |-> <<"a", "\n", "b">>],
      [lit |-> <<" ", "x", " ">>, val |-> <<" ", "x", " ">>],
      [lit |-> <<MarkerPrefix, "JSON is not a dictionary">>,
       val |-> <<MarkerPrefix, "JSON is not a dictionary">>] }

\* the verdict the contract asks for: safe a boolean, reasoning a string
BoolText(b) == IF b THEN <<"true">> ELSE <<"false">>
VerdictText(b, r, style) ==
    ObjectText(<< <<KeySafe, BoolText(b)>>, <<KeyReasoning, StrLit(r.lit)>> >>, style)
VerdictTextSwapped(b, r, style) ==
    ObjectText(<< <<KeyReasoning, StrLit(r.lit)>>, <<KeySafe, BoolText(b)>> >>, style)

\* value texts of every JSON type with the name of the Python type each
\* decodes to; "invalid" for a text that is no JSON value, "deep" for a nesting
\* beyond what the decoder can descend into
ValueSpecs ==
    { [txt |-> <<"true">>, t |-> "bool"], [txt |-> <<"false">>, t |-> "bool"],
      [txt |-> <<"null">>, t |-> "NoneType"],
      [txt |-> <<"1">>, t |-> "int"], [txt |-> <<"1", "1">>, t |-> "int"],
      [txt |-> <<"NaN">>, t |-> "float"],
      [txt |-> StrLit(<<"x">>), t |-> "str"], [txt |-> StrLit(<<"true">>), t |-> "str"],
      [txt |-> StrLit(<<"a", "\n", "b">>), t |-> "invalid"],
      [txt |-> <<"[", "]">>, t |-> "list"], [txt |-> <<"[", "1", "]">>, t |-> "list"],
      [txt |-> <<"[", "[", "1", "]", "]">>, t |-> "list"],
      [txt |-> <<DeepOpen>>, t |-> "deep"],
      [txt |-> <<"{", "}">>, t |-> "dict"],
      [txt |-> <<"{", Q, "x", Q, ":", "[", "1", "]", "}">>, t |-> "dict"] }

ValueTexts == { spec.txt : spec \in ValueSpecs }

\* objects with the two contracted keys and values of any type
TypedObjects ==
    { ObjectText(<< <<KeySafe, v1>>, <<KeyReasoning, v2>> >>, "spaced") :
        v1 \in ValueTexts, v2 \in ValueTexts }

\* objects of up to MaxMembers members: keys missing, extra, repeated, miscased
MemberChoices ==
    { <<KeySafe, <<"true">> >>, <<KeySafe, <<"false">> >>, <<KeySafe, StrLit(<<"true">>)>>,
      <<KeyReasoning, StrLit(<<"x">>)>>, <<KeyReasoning, StrLit(<<"y">>)>>,
      <<KeyReasoning, <<"null">> >>,
      <<<<"Safe">>, <<"true">> >>, <<<<"Reasoning">>, StrLit(<<"x">>)>>,
      <<<<"extra">>, <<"1">> >> }

MemberObjects ==
    { ObjectText(ms, "compact") :
        ms \in UNION { [1..n -> MemberChoices] : n \in 0..MaxMembers } }

Verdicts ==
    { VerdictText(b, r, style) : b \in BOOLEAN, r \in StrSpecs, style \in Styles }
    \union { VerdictTextSwapped(b, r, "spaced") : b \in BOOLEAN, r \in StrSpecs }

Verdict1 == VerdictText(TRUE, [lit |-> <<"x">>, val |-> <<"x">>], "spaced")

\* texts that are no JSON value: every cut of a verdict, prose, loose ends
Prefixes(s) == { SubSeq(s, 1, n) : n \in 0..(Len(s) - 1) }
Malformed ==
    Prefixes(Verdict1)
    \union { Verdict1 \o <<" ", "words">>, <<"words", " ">> \o Verdict1,
             VerdictText(FALSE, [lit |-> <<"x">>, val |-> <<"x">>], "pretty") \o <<" ", "words">>,
             Verdict1 \o Verdict1, <<"words">>,
             <<"{", "safe", ":", "true", "}">>,
             <<"{", Q, "safe", Q, "true", "}">>,
             <<"{", Q, "safe", Q, ":", "true", Q, "reasoning", Q, ":", Q, "x", Q, "}">>,
             <<"{", Q, "safe", Q, ":", "true", ",", "}">>,
             <<"[", "1", ",", "]">>, <<"[", "1", "1", "]">>, <<"[", "[", "[">>,
             <<"true", "x">> }

Payloads == Verdicts \union TypedObjects \union MemberObjects \union ValueTexts \union Malformed

\* what may surround a payload; each site has its contracted filling first
FenceSites ==
    << \* 1: before the opening fence
       << <<>>, <<" ", "\n">>, <<"\f">>, <<"words", "\n">> >>,
       \* 2: the opening fence
       << Fence, Fence \o <<Backtick>> >>,
       \* 3: the language tag
       << <<"json">>, <<"JSON">>, <<>> >>,
       \* 4: between the tag and the newline
       << <<>>, <<" ">>, <<"\t">>, <<"\r">>, <<"\n">> >>,
       \* 5: the newline after the tag
       << <<"\n">>, <<>> >>,
       \* 6: between that newline and the payload
       << <<>>, <<" ">>, <<"\t">>, <<"\f">> >>,
       \* 7: between the payload and the closing newline
       << <<>>, <<" ">>, <<"\r">>, <<"\n">> >>,
       \* 8: the newline before the closing fence
       << <<"\n">>, <<>> >>,
       \* 9: the closing fence
       << Fence, Fence \o <<Backtick>> >>,
       \* 10: after the closing fence
       << <<>>, <<" ", "\n">>, <<"\n", "words">>, <<"\n", "words">> \o CloseFence >> >>

NSites == Len(FenceSites)
Contracted == [i \in 1..NSites |-> 1]

MaxFillings == SetMax({Len(FenceSites[i]) : i \in 1..NSites})

\* the fillings that leave the contracted shape at the sites of D only
WrappingsAt(D) ==
    { [i \in 1..NSites |-> IF i \in D THEN f[i] ELSE 1] :
        f \in { g \in [D -> 2..MaxFillings] : \A i \in D : g[i] <= Len(FenceSites[i]) } }

\* the fillings that leave the contracted shape at no more than MaxNoise sites
Wrappings ==
    UNION { WrappingsAt(D) : D \in { E \in SUBSET (1..NSites) : Cardinality(E) <= MaxNoise } }

Wrap(w, payload) ==
    Concat([i \in 1..6 |-> FenceSites[i][w[i]]]) \o payload
        \o Concat([i \in 1..4 |-> FenceSites[i + 6][w[i + 6]]])

\* an unfenced payload with white space around it
RawSurrounds ==
    { <<x, y>> : x \in {<<>>, <<" ", "\n">>, <<"\f">>}, y \in {<<>>, <<"\n", " ">>, <<"\t">>} }

\* the payloads every wrapping is tried on
CorePayloads ==
    { Verdict1,
      VerdictText(FALSE, [lit |-> <<"x">>, val |-> <<"x">>], "pretty"),
      ObjectText(<< <<KeySafe, <<"true">> >>, <<KeyReasoning, StrLit(<<"x">>)>>,
                    <<<<"extra">>, <<"1">> >> >>, "spaced"),
      ObjectText(<< <<KeySafe, <<"1">> >>, <<KeyReasoning, <<"null">> >> >>, "spaced"),
      <<"[", "1", "]">>,
      Verdict1 \o <<" ", "words">>,
      <<DeepOpen>>,
      <<>> }

Texts ==
    Payloads
    \union { InFence(p) : p \in Payloads }
    \union { Wrap(w, p) : w \in Wrappings, p \in CorePayloads }
    \union { x[1] \o p \o x[2] : x \in RawSurrounds, p \in Verdicts \union CorePayloads }

\* ------------------------------------------------------------------------
\* validate_prompt_override_key(key)
\* ------------------------------------------------------------------------
MaxKeyLength == 1024
PromptPrefix == "custom_prompts/"
Nul == "<NUL>"
LongName == "<1004 x>"

\* len() of a chunk of a key
ChunkLen(c) ==
    CASE c = PromptPrefix -> 15
      [] c = LongName -> 1004
      [] c \in {"a.txt", "b.txt"} -> 5
      [] c = "other/" -> 6
      [] c = ".." -> 2
      [] OTHER -> 1

RECURSIVE StrLen(_)
StrLen(s) == IF s = <<>> THEN 0 ELSE ChunkLen(Head(s)) + StrLen(Tail(s))

EndsWithSlash(key) == key[Len(key)] \in {"/", PromptPrefix, "other/"}

RaisesMsg(exception, msg) == [raised |-> exception, value |-> PyStr(msg)]

\* the length compared with >= for >
TooLongFrom1024(key) == StrLen(key) >= MaxKeyLength

\* len(key) > 1024
TooLong(key) == StrLen(key) > MaxKeyLength

\* the validation without the check of the prefix
ValidatePromptOverrideKeyAnyPrefix(key) ==
    IF key = <<>> THEN Returns(PyNone)
    ELSE IF TooLong(key)
    THEN RaisesMsg("ValueError",
                   <<"prompt_override_key exceeds maximum length of 1024 characters">>)
    ELSE IF \E i \in 1..Len(key) : key[i] = Nul
    THEN RaisesMsg("ValueError", <<"prompt_override_key contains invalid null byte">>)
    ELSE IF \E i \in 1..Len(key) : key[i] = ".."
    THEN RaisesMsg("ValueError",
                   <<"prompt_override_key cannot contain '..' (path traversal attempt)">>)
    ELSE IF key = <<PromptPrefix>> \/ EndsWithSlash(key)
    THEN RaisesMsg("ValueError",
                   <<"prompt_override_key must specify a file, not just a directory">>)
    ELSE Returns(PyNone)

ValidatePromptOverrideKey(key) ==
    IF key = <<>> THEN Returns(PyNone)
    ELSE IF TooLong(key)
    THEN RaisesMsg("ValueError",
                   <<"prompt_override_key exceeds maximum length of 1024 characters">>)
    ELSE IF \E i \in 1..Len(key) : key[i] = Nul
    THEN RaisesMsg("ValueError", <<"prompt_override_key contains invalid null byte">>)
    ELSE IF key[1] # PromptPrefix
    THEN RaisesMsg("ValueError",
                   <<"prompt_override_key must start with 'custom_prompts/' (e.g., 'custom_prompts/my_prompt.txt')">>)
    ELSE IF \E i \in 1..Len(key) : key[i] = ".."
    THEN RaisesMsg("ValueError",
                   <<"prompt_override_key cannot contain '..' (path traversal attempt)">>)
    ELSE IF key = <<PromptPrefix>> \/ EndsWithSlash(key)
    THEN RaisesMsg("ValueError",
                   <<"prompt_override_key must specify a file, not just a directory">>)
    ELSE Returns(PyNone)

\* the keys a caller may hand over: up to MaxKeyChunks chunks, among them the
\* prefix, names, another directory, a parent-directory step, a NUL, a slash
\* and a name that takes a key to the length limit
MaxKeyChunks == 4
KeyChunks == {PromptPrefix, "a.txt", "other/", "..", Nul, LongName, "/", "x"}
Keys == UNION { [1..n -> KeyChunks] : n \in 0..MaxKeyChunks }

\* ------------------------------------------------------------------------
\* The process: its environment, the bucket, the requests, the model's answers
\* ------------------------------------------------------------------------
MaxEnvDeviations == 1

Unset == [t |-> "unset", v |-> <<>>]
K1 == <<PromptPrefix, "a.txt">>
K2 == <<PromptPrefix, "b.txt">>
BadKey == <<"other/", "a.txt">>
TraversalKey == <<PromptPrefix, "..", "/", "a.txt">>
\* a key spelled as the cache's name for the default template, line 139
SentinelKey == <<"DEFAULT">>

EnvNames ==
    <<"PROMPT_OVERRIDE_KEY", "PROMPT_BUCKET", "MODEL_ID", "MAX_TOKENS", "TEMPERATURE",
      "PROMPT_TEMPLATE">>

\* per variable, the values it may have; the first is the deployed one
EnvValues ==
    << << Unset, PyStr(K1), PyStr(<<" ">> \o K1 \o <<"\n">>), PyStr(BadKey) >>,
       << PyStr(<<"bucket">>), Unset >>,
       << PyStr(<<"model-id">>), Unset >>,
       << PyStr(<<"1000">>), PyStr(<<"abc">>), Unset >>,
       << PyStr(<<"0.5">>), PyStr(<<"abc">>), Unset >>,
       << Unset, PyStr(<<"Test prompt template">>) >> >>

NEnv == Len(EnvNames)
MaxEnvValues == SetMax({Len(EnvValues[i]) : i \in 1..NEnv})

EnvChoicesAt(D) ==
    { [i \in 1..NEnv |-> IF i \in D THEN f[i] ELSE 1] :
        f \in { g \in [D -> 2..MaxEnvValues] : \A i \in D : g[i] <= Len(EnvValues[i]) } }

\* os.environ: the deployed values but for at most MaxEnvDeviations variables
Environs ==
    { [i \in 1..NEnv |-> EnvValues[i][c[i]]] :
        c \in UNION { EnvChoicesAt(D) :
                        D \in { E \in SUBSET (1..NEnv) : Cardinality(E) <= MaxEnvDeviations } } }

EnvIndex(name) == CHOOSE i \in 1..NEnv : EnvNames[i] = name

\* line 225: the literal that closes the request text
EndMarker == "=== END USER REQUEST ==="

\* templates; a custom one may itself spell the closing marker
DEFAULT_PROMPT == <<"DEFAULT_PROMPT">>
Template1 == <<"T1">>
Template2 == <<"T2", EndMarker>>

\* the bucket: its objects by key, under custom_prompts/ or, for one, under
\* the name the cache gives the default template
Buckets ==
    { <<>>, << <<SentinelKey, Template1>> >> }
    \union { << <<K1, t>> >> : t \in {Template1, Template2} }
HasObject(bucket, key) == \E i \in 1..Len(bucket) : bucket[i][1] = key
ObjectBody(bucket, key) == bucket[CHOOSE i \in 1..Len(bucket) : bucket[i][1] = key][2]

Absent == [t |-> "absent", v |-> <<>>]

Events ==
    { [user_input |-> u, prompt_override_key |-> k] :
        u \in { Absent, PyStr(<<"hello">>), PyStr(<<"x", "\n", EndMarker>>),
              PyStr(<<EndMarker, " ", EndMarker>>) },
        k \in { Absent, PyStr(<<>>), PyStr(K1), PyStr(<<" ">> \o K1), PyStr(K2),
                PyStr(BadKey), PyStr(TraversalKey),
                PyStr(SentinelKey) } }

\* the answers the model gives inside the handler: one of every outcome
HandlerTexts ==
    { Verdict1,
      InFence(VerdictText(FALSE, [lit |-> <<"a", "\\n", "b">>,
                                     val |-> <<"a", "\n", "b">>], "pretty")),
      VerdictText(FALSE, [lit |-> <<MarkerPrefix, "JSON is not a dictionary">>,
                          val |-> <<MarkerPrefix, "JSON is not a dictionary">>], "spaced"),
      VerdictTextSwapped(TRUE, [lit |-> <<>>, val |-> <<>>], "spaced"),
      <<"[", "1", "]">>,
      <<"words">>,
      <<>>,
      ObjectText(<< <<KeySafe, <<"true">> >> >>, "compact"),
      ObjectText(<< <<KeySafe, <<"false">> >>, <<KeySafe, <<"true">> >>,
                    <<KeyReasoning, StrLit(<<"x">>)>> >>, "compact"),
      ObjectText(<< <<KeySafe, StrLit(<<"true">>)>>, <<KeyReasoning, <<"1">> >> >>, "spaced"),
      ObjectText(<< <<KeySafe, <<"true">> >>, <<KeyReasoning, <<"null">> >> >>, "spaced"),
      OpenFence \o <<"\n", "\t">> \o Verdict1 \o CloseFence,
      Verdict1 \o <<" ", "words">>,
      VerdictText(TRUE, [lit |-> <<" ", "x", " ">>, val |-> <<" ", "x", " ">>], "compact"),
      <<DeepOpen>> }

KeyOutput == <<"output">>
KeyMessage == <<"message">>
KeyContent == <<"content">>
KeyText == <<"text">>

Dict1(k, val) == PyDict(<< <<k, val>> >>)
Envelope(content) == Dict1(KeyOutput, Dict1(KeyMessage, Dict1(KeyContent, content)))
TextBlock(t) == Dict1(KeyText, PyStr(t))

\* what converse() returns: well-formed envelopes and broken ones
Responses ==
    { Envelope(PyList(<<TextBlock(t)>>)) : t \in HandlerTexts }
    \union { PyDict(<<>>),
             Dict1(KeyOutput, PyDict(<<>>)),
             Dict1(KeyOutput, Dict1(KeyMessage, PyDict(<<>>))),
             Envelope(PyList(<<>>)),
             Envelope(PyNone),
             Envelope(PyList(<<PyDict(<<>>)>>)),
             Envelope(PyList(<<PyStr(Verdict1)>>)),
             Envelope(PyList(<<Dict1(KeyText, PyNone)>>)),
             Envelope(PyList(<<TextBlock(<<"words">>), TextBlock(Verdict1)>>)) }

\* errors converse() raises: the transport's, after its own retries
ConverseErrors == {"ClientError", "ReadTimeoutError", "EndpointConnectionError"}

\* ------------------------------------------------------------------------
\* State
\* ------------------------------------------------------------------------
VARIABLES
    \* validate_model_response called on its own
    text,               \* the str handed to validate_model_response
    outcome,            \* what the call on text did
    stage,              \* "input", "validated", "revalidated", "fenced", "off"
    prior,              \* the text and outcome of the call before
    \* the process
    PROMPT_CACHE,       \* the items of the module-level dict
    environ,            \* os.environ, by EnvNames
    bucket,             \* the objects of the prompt bucket
    \* one lambda_handler call
    pc,                 \* where the call stands
    event,
    prompt_override_key,
    prompt_template,
    user_input,
    full_prompt,
    response,
    model_output,
    validation_result,
    result,             \* what the call returned or raised
    calls,              \* the steps the call has taken, in order
    \* validate_prompt_override_key called on its own
    override_key,       \* the str handed to validate_prompt_override_key
    key_result,         \* what the call on override_key did
    \* load_prompt called from several threads of one process
    threads             \* per thread: where its call stands, and its locals

vvars == <<text, outcome, stage, prior>>
procvars == <<PROMPT_CACHE, environ, bucket>>
locals ==
    <<event, prompt_override_key, prompt_template, user_input, full_prompt, response,
      model_output, validation_result>>
hvars == <<procvars, pc, locals, result, calls>>
kvars == <<override_key, key_result>>
tvars == <<threads>>
vars == <<vvars, hvars, kvars, tvars>>

NotCalled == Raises("not called")
NoPrior == [text |-> <<>>, outcome |-> NotCalled, candidate |-> <<>>]
Running == Raises("running")

\* the candidate JSON text of lines 325-336
Output(model_output_) == Strip(model_output_)
Fenced(model_output_) == JsonPatternMatch(Output(model_output_)).matched
JsonStr(model_output_) ==
    IF Fenced(model_output_)
    THEN Strip(JsonPatternMatch(Output(model_output_)).group1)
    ELSE Output(model_output_)

Accepted(o) == o.raised = "none" /\ o.value.valid
Rejected(o) == o.raised = "none" /\ ~o.value.valid

KeyOff ==
    /\ override_key = <<>>
    /\ key_result = Raises("not called")

ThreadsOff == threads = <<>>

ValidatorOff ==
    /\ text = <<>>
    /\ outcome = NotCalled
    /\ stage = "off"
    /\ prior = NoPrior

HandlerOff ==
    /\ PROMPT_CACHE = <<>>
    /\ environ = [i \in 1..NEnv |-> EnvValues[i][1]]
    /\ bucket = <<>>
    /\ pc = "off"
    /\ event = PyNone
    /\ prompt_override_key = PyNone
    /\ prompt_template = PyNone
    /\ user_input = PyNone
    /\ full_prompt = PyNone
    /\ response = PyNone
    /\ model_output = PyNone
    /\ validation_result = NotCalled
    /\ result = NotCalled
    /\ calls = <<>>

\* ------------------------------------------------------------------------
\* validate_model_response as a function of its text
\* ------------------------------------------------------------------------
InitValidator ==
    /\ text \in Texts
    /\ outcome = NotCalled
    /\ stage = "input"
    /\ prior = NoPrior
    /\ HandlerOff
    /\ KeyOff
    /\ ThreadsOff

\* validate_model_response(text)
Validate ==
    /\ stage = "input"
    /\ outcome' = ValidateModelResponse(text)
    /\ stage' = "validated"
    /\ UNCHANGED <<text, prior, hvars, kvars, tvars>>

\* the text the accepted outcome stands for, validated again
Revalidate ==
    /\ stage = "validated"
    /\ Accepted(outcome)
    /\ prior' = [text |-> text, outcome |-> outcome, candidate |-> JsonStr(text)]
    /\ text' = IF Fenced(text) THEN InFence(JsonStr(text)) ELSE JsonStr(text)
    /\ outcome' = ValidateModelResponse(text')
    /\ stage' = "revalidated"
    /\ UNCHANGED <<hvars, kvars, tvars>>

\* a payload accepted without a fence, validated inside one
ValidateFenced ==
    /\ stage = "validated"
    /\ Accepted(outcome)
    /\ ~Fenced(text)
    /\ prior' = [text |-> text, outcome |-> outcome, candidate |-> JsonStr(text)]
    /\ text' = InFence(text)
    /\ outcome' = ValidateModelResponse(text')
    /\ stage' = "fenced"
    /\ UNCHANGED <<hvars, kvars, tvars>>

NextValidator == Validate \/ Revalidate \/ ValidateFenced

SpecValidator == InitValidator /\ [][NextValidator]_vars

\* ------------------------------------------------------------------------
\* validate_prompt_override_key as a function of its key
\* ------------------------------------------------------------------------
InitKey ==
    /\ override_key \in Keys
    /\ key_result = NotCalled
    /\ ValidatorOff
    /\ HandlerOff
    /\ ThreadsOff

\* validate_prompt_override_key(override_key)
ValidateKey ==
    /\ key_result = NotCalled
    /\ key_result' = ValidatePromptOverrideKey(override_key)
    /\ UNCHANGED <<override_key, vvars, hvars, tvars>>

NextKey == ValidateKey

SpecKey == InitKey /\ [][NextKey]_vars

\* ------------------------------------------------------------------------
\* lambda_handler(event, context), step by step
\* ------------------------------------------------------------------------
EnvGet(name) == environ[EnvIndex(name)]
\* os.environ.get(name, '')
EnvGetOrEmpty(name) == IF EnvGet(name).t = "unset" THEN <<>> ELSE EnvGet(name).v
\* event.get(name, '') for the one optional field
EventKeyOrEmpty == IF event.prompt_override_key.t = "absent" THEN <<>> ELSE event.prompt_override_key.v

HasKey(d, k) == \E i \in 1..Len(d.v) : d.v[i][1] = k

\* obj[k] on a dict; on anything else Python raises TypeError
GetItem(obj, k) ==
    IF obj.t # "dict" THEN Raises("TypeError")
    ELSE IF ~HasKey(obj, k) THEN Raises("KeyError")
    ELSE Returns(DictGet(obj, k))

\* not x
Falsy(x) ==
    \/ x.t = "NoneType"
    \/ x.t \in {"list", "dict", "str"} /\ x.v = <<>>
    \/ x.t = "bool" /\ x.v = FALSE

IntChunks == {"1000", "0"}
FloatChunks == IntChunks \union {"0.5"}
\* int(s) and float(s) succeed
ParsesAsInt(s) == Len(Strip(s)) = 1 /\ Strip(s)[1] \in IntChunks
ParsesAsFloat(s) == Len(Strip(s)) = 1 /\ Strip(s)[1] \in FloatChunks

Idle == pc \in {"idle", "returned", "raised"}

Raise(exc) ==
    /\ result' = exc
    /\ pc' = "raised"

Init ==
    /\ ValidatorOff
    /\ KeyOff
    /\ ThreadsOff
    /\ PROMPT_CACHE = PyDict(<<>>)
    /\ environ \in Environs
    /\ bucket \in Buckets
    /\ pc = "idle"
    /\ event = PyNone
    /\ prompt_override_key = PyNone
    /\ prompt_template = PyNone
    /\ user_input = PyNone
    /\ full_prompt = PyNone
    /\ response = PyNone
    /\ model_output = PyNone
    /\ validation_result = NotCalled
    /\ result = NotCalled
    /\ calls = <<>>

\* the runtime calls lambda_handler(e, context) in the same process
Invoke(e) ==
    /\ Idle
    /\ pc' = "select"
    /\ event' = e
    /\ prompt_override_key' = PyNone
    /\ prompt_template' = PyNone
    /\ user_input' = PyNone
    /\ full_prompt' = PyNone
    /\ response' = PyNone
    /\ model_output' = PyNone
    /\ validation_result' = NotCalled
    /\ result' = Running
    /\ calls' = <<>>
    /\ UNCHANGED <<vvars, kvars, tvars, procvars>>

\* the deployed key validated only when the request brings no key
SelectKeyLazy ==
    /\ pc = "select"
    /\ LET runtime_prompt_key == Strip(EventKeyOrEmpty)
           env_prompt_key == Strip(EnvGetOrEmpty("PROMPT_OVERRIDE_KEY"))
           checked == ValidatePromptOverrideKey(env_prompt_key)
           used == runtime_prompt_key = <<>> /\ env_prompt_key # <<>>
       IN  /\ calls' = IF used
                       THEN Append(calls, "validate_prompt_override_key")
                       ELSE calls
           /\ IF used /\ checked.raised # "none"
              THEN /\ Raise(checked)
                   /\ UNCHANGED prompt_override_key
              ELSE /\ prompt_override_key' =
                        PyStr(IF runtime_prompt_key # <<>> THEN runtime_prompt_key
                              ELSE env_prompt_key)
                   /\ pc' = "load"
                   /\ UNCHANGED result
    /\ UNCHANGED <<vvars, kvars, tvars, procvars, event, prompt_template, user_input, full_prompt,
                   response, model_output, validation_result>>

\* lines 200-211: the key of the request, else the deployed one
SelectKey ==
    /\ pc = "select"
    /\ LET runtime_prompt_key == Strip(EventKeyOrEmpty)
           env_prompt_key == Strip(EnvGetOrEmpty("PROMPT_OVERRIDE_KEY"))
           checked == ValidatePromptOverrideKey(env_prompt_key)
       IN  /\ calls' = IF env_prompt_key # <<>>
                       THEN Append(calls, "validate_prompt_override_key")
                       ELSE calls
           /\ IF env_prompt_key # <<>> /\ checked.raised # "none"
              THEN /\ Raise(checked)
                   /\ UNCHANGED prompt_override_key
              ELSE /\ prompt_override_key' =
                        PyStr(IF runtime_prompt_key # <<>> THEN runtime_prompt_key
                              ELSE env_prompt_key)
                   /\ pc' = "load"
                   /\ UNCHANGED result
    /\ UNCHANGED <<vvars, kvars, tvars, procvars, event, prompt_template, user_input, full_prompt,
                   response, model_output, validation_result>>

CacheDefault == <<"DEFAULT">>

\* a step of load_prompt's first part: what it does next and the calls it makes
Plan(kind, key, exc, calls_) == [kind |-> kind, key |-> key, exc |-> exc, calls |-> calls_]

\* the cache looked up before the key is validated
LoadPlanLookupFirst(arg, cache, env_key, has_bucket) ==
    LET key == IF arg.t = "NoneType" THEN Strip(env_key) ELSE Strip(arg.v)
        checked == ValidatePromptOverrideKey(key)
        cache_key == IF key # <<>> THEN key ELSE <<"DEFAULT">>
    IN  IF HasKey(cache, cache_key)
        THEN Plan("hit", key, Returns(PyNone), <<"cache hit">>)
        ELSE IF checked.raised # "none"
        THEN Plan("invalid", key, checked, <<"cache miss", "validate_prompt_override_key">>)
        ELSE IF ~has_bucket
        THEN Plan("no bucket", key, RaisesMsg("KeyError", <<"PROMPT_BUCKET">>),
                  <<"cache miss", "validate_prompt_override_key">>)
        ELSE IF key # <<>>
        THEN Plan("fetch", key, Returns(PyNone),
                  <<"cache miss", "validate_prompt_override_key">>)
        ELSE Plan("default", key, Returns(PyNone),
                  <<"cache miss", "validate_prompt_override_key", "cache store">>)

\* the template fetched again on every call, whatever the cache holds
LoadPlanRefresh(arg, cache, env_key, has_bucket) ==
    LET key == IF arg.t = "NoneType" THEN Strip(env_key) ELSE Strip(arg.v)
        checked == ValidatePromptOverrideKey(key)
    IN  IF checked.raised # "none"
        THEN Plan("invalid", key, checked, <<"validate_prompt_override_key">>)
        ELSE IF ~has_bucket
        THEN Plan("no bucket", key, RaisesMsg("KeyError", <<"PROMPT_BUCKET">>),
                  <<"validate_prompt_override_key", "cache miss">>)
        ELSE IF key # <<>>
        THEN Plan("fetch", key, Returns(PyNone),
                  <<"validate_prompt_override_key", "cache miss">>)
        ELSE Plan("default", key, Returns(PyNone),
                  <<"validate_prompt_override_key", "cache miss", "cache store">>)

\* load_prompt, lines 122-147 and 171: the key stripped and validated, the
\* cache looked up, the bucket's name read, and the way taken from there
LoadPlan(arg, cache, env_key, has_bucket) ==
    LET key == IF arg.t = "NoneType" THEN Strip(env_key) ELSE Strip(arg.v)
        checked == ValidatePromptOverrideKey(key)
        cache_key == IF key # <<>> THEN key ELSE CacheDefault
    IN  IF checked.raised # "none"
        THEN Plan("invalid", key, checked, <<"validate_prompt_override_key">>)
        ELSE IF HasKey(cache, cache_key)
        THEN Plan("hit", key, Returns(PyNone), <<"validate_prompt_override_key", "cache hit">>)
        ELSE IF ~has_bucket
        THEN Plan("no bucket", key, RaisesMsg("KeyError", <<"PROMPT_BUCKET">>),
                  <<"validate_prompt_override_key", "cache miss">>)
        ELSE IF key # <<>>
        THEN Plan("fetch", key, Returns(PyNone),
                  <<"validate_prompt_override_key", "cache miss">>)
        ELSE Plan("default", key, Returns(PyNone),
                  <<"validate_prompt_override_key", "cache miss", "cache store">>)

\* load_prompt, lines 122-145 and 171-178: up to the cache and the default
LoadPrompt ==
    /\ pc = "load"
    /\ LET plan == LoadPlan(prompt_override_key, PROMPT_CACHE,
                            EnvGetOrEmpty("PROMPT_OVERRIDE_KEY"),
                            EnvGet("PROMPT_BUCKET").t # "unset")
           cache_key == IF plan.key # <<>> THEN plan.key ELSE CacheDefault
       IN  /\ calls' = calls \o plan.calls
           /\ CASE plan.kind \in {"invalid", "no bucket"} ->
                    /\ Raise(plan.exc)
                    /\ UNCHANGED <<PROMPT_CACHE, prompt_override_key, prompt_template>>
                [] plan.kind = "hit" ->
                    /\ prompt_template' = DictGet(PROMPT_CACHE, cache_key)
                    /\ pc' = "config"
                    /\ UNCHANGED <<PROMPT_CACHE, prompt_override_key, result>>
                [] plan.kind = "fetch" ->
                    /\ prompt_override_key' = PyStr(plan.key)
                    /\ pc' = "fetch"
                    /\ UNCHANGED <<PROMPT_CACHE, prompt_template, result>>
                [] plan.kind = "default" ->
                    /\ PROMPT_CACHE' = PyDict(DictSetItem(PROMPT_CACHE.v, cache_key,
                                                          PyStr(DEFAULT_PROMPT)))
                    /\ prompt_template' = PyStr(DEFAULT_PROMPT)
                    /\ pc' = "config"
                    /\ UNCHANGED <<prompt_override_key, result>>
    /\ UNCHANGED <<vvars, kvars, tvars, environ, bucket, event, user_input, full_prompt,
                   response, model_output, validation_result>>

\* load_prompt, lines 147-158: the object is there and is cached
FetchFound ==
    /\ pc = "fetch"
    /\ HasObject(bucket, prompt_override_key.v)
    /\ PROMPT_CACHE' = PyDict(DictSetItem(PROMPT_CACHE.v, prompt_override_key.v,
                                          PyStr(ObjectBody(bucket, prompt_override_key.v))))
    /\ prompt_template' = PyStr(ObjectBody(bucket, prompt_override_key.v))
    /\ pc' = "config"
    /\ calls' = calls \o <<"s3.get_object", "cache store">>
    /\ UNCHANGED <<vvars, kvars, tvars, environ, bucket, event, prompt_override_key, user_input,
                   full_prompt, response, model_output, validation_result, result>>

\* a missing object answered with the default template, which is cached
FetchNoSuchKeyDefault ==
    /\ pc = "fetch"
    /\ ~HasObject(bucket, prompt_override_key.v)
    /\ PROMPT_CACHE' = PyDict(DictSetItem(PROMPT_CACHE.v, prompt_override_key.v,
                                          PyStr(DEFAULT_PROMPT)))
    /\ prompt_template' = PyStr(DEFAULT_PROMPT)
    /\ pc' = "config"
    /\ calls' = calls \o <<"s3.get_object", "cache store">>
    /\ UNCHANGED <<vvars, kvars, tvars, environ, bucket, event, prompt_override_key, user_input,
                   full_prompt, response, model_output, validation_result, result>>

\* lines 159-164: no such object
FetchNoSuchKey ==
    /\ pc = "fetch"
    /\ ~HasObject(bucket, prompt_override_key.v)
    /\ Raise(RaisesMsg("ValueError",
                       <<"Prompt override key '">> \o prompt_override_key.v
                           \o <<"' does not exist in bucket '">>
                           \o EnvGet("PROMPT_BUCKET").v \o <<"'">>))
    /\ calls' = Append(calls, "s3.get_object")
    /\ UNCHANGED <<vvars, kvars, tvars, procvars, locals>>

S3Errors == {"ClientError", "EndpointConnectionError"}

\* lines 165-170: any other failure of the fetch is raised again
FetchFailed ==
    /\ pc = "fetch"
    /\ \E e \in S3Errors : Raise(Raises(e))
    /\ calls' = Append(calls, "s3.get_object")
    /\ UNCHANGED <<vvars, kvars, tvars, procvars, locals>>

\* lines 216-222: the configuration and the input, each required
ConfigError ==
    IF EnvGet("MODEL_ID").t = "unset" THEN RaisesMsg("KeyError", <<"MODEL_ID">>)
    ELSE IF EnvGet("MAX_TOKENS").t = "unset" THEN RaisesMsg("KeyError", <<"MAX_TOKENS">>)
    ELSE IF ~ParsesAsInt(EnvGet("MAX_TOKENS").v) THEN Raises("ValueError")
    ELSE IF EnvGet("TEMPERATURE").t = "unset" THEN RaisesMsg("KeyError", <<"TEMPERATURE">>)
    ELSE IF ~ParsesAsFloat(EnvGet("TEMPERATURE").v) THEN Raises("ValueError")
    ELSE IF event.user_input.t = "absent" THEN RaisesMsg("KeyError", <<"user_input">>)
    ELSE Returns(PyNone)

\* a request that fails at the configuration takes its template out of the
\* cache again
ReadConfigEvicting ==
    /\ pc = "config"
    /\ IF ConfigError.raised # "none"
       THEN /\ Raise(ConfigError)
            /\ PROMPT_CACHE' = PyDict(<<>>)
            /\ UNCHANGED user_input
       ELSE /\ user_input' = event.user_input
            /\ pc' = "assemble"
            /\ UNCHANGED <<result, PROMPT_CACHE>>
    /\ UNCHANGED <<vvars, kvars, tvars, environ, bucket, event, prompt_override_key,
                   prompt_template, full_prompt, response, model_output, validation_result,
                   calls>>

ReadConfig ==
    /\ pc = "config"
    /\ IF ConfigError.raised # "none"
       THEN /\ Raise(ConfigError)
            /\ UNCHANGED user_input
       ELSE /\ user_input' = event.user_input
            /\ pc' = "assemble"
            /\ UNCHANGED result
    /\ UNCHANGED <<vvars, kvars, tvars, procvars, event, prompt_override_key, prompt_template,
                   full_prompt, response, model_output, validation_result, calls>>

\* the closing marker taken out of the input before it is placed
FullPromptSanitized(template, input) ==
    template \o <<"\n">> \o SelectSeq(input, LAMBDA c : c # EndMarker) \o <<"\n", EndMarker>>

\* line 225
FullPrompt(template, input) == template \o <<"\n">> \o input \o <<"\n", EndMarker>>

Assemble ==
    /\ pc = "assemble"
    /\ full_prompt' = PyStr(FullPrompt(prompt_template.v, user_input.v))
    /\ pc' = "converse"
    /\ UNCHANGED <<vvars, kvars, tvars, procvars, event, prompt_override_key, prompt_template,
                   user_input, response, model_output, validation_result, result, calls>>

\* lines 234-264: the model answers
ConverseReturns ==
    /\ pc = "converse"
    /\ response' \in Responses
    /\ pc' = "extract"
    /\ calls' = Append(calls, "converse")
    /\ UNCHANGED <<vvars, kvars, tvars, procvars, event, prompt_override_key, prompt_template,
                   user_input, full_prompt, model_output, validation_result, result>>

\* a failed call issued again by the handler
ConverseRaisesRetried ==
    /\ pc = "converse"
    /\ pc' = "converse"
    /\ calls' = Append(calls, "converse")
    /\ UNCHANGED <<vvars, kvars, tvars, procvars, locals, result>>

\* ... or the call fails, after the client's own retries
ConverseRaises ==
    /\ pc = "converse"
    /\ \E e \in ConverseErrors : Raise(Raises(e))
    /\ calls' = Append(calls, "converse")
    /\ UNCHANGED <<vvars, kvars, tvars, procvars, locals>>

\* an empty content list read as an empty text
ExtractTextEmptyOk(resp) ==
    LET output == GetItem(resp, KeyOutput)
        message == GetItem(output.value, KeyMessage)
        content_blocks == GetItem(message.value, KeyContent)
    IN  IF output.raised # "none" THEN output
        ELSE IF message.raised # "none" THEN message
        ELSE IF content_blocks.raised # "none" THEN content_blocks
        ELSE IF Falsy(content_blocks.value)
        THEN Returns(PyStr(<<>>))
        ELSE GetItem(content_blocks.value.v[1], KeyText)

\* lines 266-277: the text of the first content block
ExtractText(resp) ==
    LET output == GetItem(resp, KeyOutput)
        message == GetItem(output.value, KeyMessage)
        content_blocks == GetItem(message.value, KeyContent)
    IN  IF output.raised # "none" THEN output
        ELSE IF message.raised # "none" THEN message
        ELSE IF content_blocks.raised # "none" THEN content_blocks
        ELSE IF Falsy(content_blocks.value)
        THEN RaisesMsg("ValueError", <<"No content blocks in model response">>)
        ELSE GetItem(content_blocks.value.v[1], KeyText)

Extract ==
    /\ pc = "extract"
    /\ IF ExtractText(response).raised # "none"
       THEN /\ Raise(ExtractText(response))
            /\ UNCHANGED model_output
       ELSE /\ model_output' = ExtractText(response).value
            /\ pc' = "validate"
            /\ UNCHANGED result
    /\ UNCHANGED <<vvars, kvars, tvars, procvars, event, prompt_override_key, prompt_template,
                   user_input, full_prompt, response, validation_result, calls>>

\* line 287; a text that is no str has no strip()
CallValidate(output) ==
    IF output.t # "str" THEN Raises("AttributeError") ELSE ValidateModelResponse(output.v)

ValidateResponse ==
    /\ pc = "validate"
    /\ validation_result' = CallValidate(model_output)
    /\ calls' = Append(calls, "validate_model_response")
    /\ IF CallValidate(model_output).raised # "none"
       THEN Raise(CallValidate(model_output))
       ELSE /\ pc' = "resolve"
            /\ UNCHANGED result
    /\ UNCHANGED <<vvars, kvars, tvars, procvars, event, prompt_override_key, prompt_template,
                   user_input, full_prompt, response, model_output>>

\* lines 289-303: the verdict returned for a validation result
Verdict(safe, reasoning) == PyDict(<< <<KeySafe, safe>>, <<KeyReasoning, reasoning>> >>)

\* a rejected validation answered with safe true
FailOpenVerdict(validation) ==
    Verdict(PyBool(TRUE), PyStr(<<MarkerPrefix>> \o validation.reason))

\* lines 289-294
FailClosedVerdict(validation) ==
    Verdict(PyBool(FALSE), PyStr(<<MarkerPrefix>> \o validation.reason))

\* the reasoning passed on stripped
AcceptedVerdictStripped(validation) ==
    Verdict(DictGet(validation.parsed_json, KeySafe),
            PyStr(Strip(DictGet(validation.parsed_json, KeyReasoning).v)))

\* lines 296-303
AcceptedVerdict(validation) ==
    Verdict(DictGet(validation.parsed_json, KeySafe),
            DictGet(validation.parsed_json, KeyReasoning))

ResolveVerdict(validation) ==
    IF ~validation.valid THEN FailClosedVerdict(validation) ELSE AcceptedVerdict(validation)

Resolve ==
    /\ pc = "resolve"
    /\ result' = Returns(ResolveVerdict(validation_result.value))
    /\ pc' = "returned"
    /\ UNCHANGED <<vvars, kvars, tvars, procvars, locals, calls>>

\* somebody writes, replaces or deletes the object in the bucket
RemoteChange ==
    /\ bucket' \in Buckets \ {bucket}
    /\ UNCHANGED <<vvars, kvars, tvars, PROMPT_CACHE, environ, pc, locals, result, calls>>

Next ==
    \/ \E e \in Events : Invoke(e)
    \/ SelectKey
    \/ LoadPrompt
    \/ FetchFound
    \/ FetchNoSuchKey
    \/ FetchFailed
    \/ ReadConfig
    \/ Assemble
    \/ ConverseReturns
    \/ ConverseRaises
    \/ Extract
    \/ ValidateResponse
    \/ Resolve
    \/ RemoteChange

Spec == Init /\ [][Next]_vars

\* ------------------------------------------------------------------------
\* load_prompt called from two threads of one process: PROMPT_CACHE and the
\* bucket are shared, the key and the template read are each thread's own
\* ------------------------------------------------------------------------
MaxLoads == 2

Threads == {1, 2}
ThreadKeys == {K1, <<>>}

\* a thread between calls, the loads it has made and what they returned
Thread(pc_, key, template, loads, returned) ==
    [pc |-> pc_, key |-> key, prompt_template |-> template, loads |-> loads,
     returned |-> returned]

ThreadIdle(th) == Thread("idle", <<>>, PyNone, th.loads, th.returned)
ThreadReturn(th, template) ==
    Thread("idle", <<>>, PyNone, th.loads, th.returned \union {<<th.key, template>>})

InitConcurrent ==
    /\ ValidatorOff
    /\ KeyOff
    /\ threads = [t \in Threads |-> Thread("idle", <<>>, PyNone, 0, {})]
    /\ PROMPT_CACHE = PyDict(<<>>)
    /\ environ = [i \in 1..NEnv |-> EnvValues[i][1]]
    /\ bucket \in Buckets
    /\ pc = "off"
    /\ event = PyNone
    /\ prompt_override_key = PyNone
    /\ prompt_template = PyNone
    /\ user_input = PyNone
    /\ full_prompt = PyNone
    /\ response = PyNone
    /\ model_output = PyNone
    /\ validation_result = NotCalled
    /\ result = NotCalled
    /\ calls = <<>>

ThreadUnchanged == UNCHANGED <<vvars, kvars, environ, bucket, pc, locals, result, calls>>

\* a thread calls load_prompt(key)
ThreadCall(t, key) ==
    /\ threads[t].pc = "idle"
    /\ threads[t].loads < MaxLoads
    /\ threads' = [threads EXCEPT ![t] =
                       Thread("load", key, PyNone, threads[t].loads + 1, threads[t].returned)]
    /\ UNCHANGED PROMPT_CACHE
    /\ ThreadUnchanged

\* lines 122-147 and 171-178 in a thread: validation, the lookup, the default
ThreadLoad(t) ==
    /\ threads[t].pc = "load"
    /\ LET th == threads[t]
           plan == LoadPlan(PyStr(th.key), PROMPT_CACHE, EnvGetOrEmpty("PROMPT_OVERRIDE_KEY"),
                            EnvGet("PROMPT_BUCKET").t # "unset")
           cache_key == IF plan.key # <<>> THEN plan.key ELSE CacheDefault
       IN  CASE plan.kind \in {"invalid", "no bucket"} ->
                    /\ threads' = [threads EXCEPT ![t] = ThreadIdle(th)]
                    /\ UNCHANGED PROMPT_CACHE
             [] plan.kind = "hit" ->
                    /\ threads' = [threads EXCEPT ![t] =
                                       ThreadReturn(th, DictGet(PROMPT_CACHE, cache_key))]
                    /\ UNCHANGED PROMPT_CACHE
             [] plan.kind = "fetch" ->
                    /\ threads' = [threads EXCEPT ![t] =
                                       Thread("fetch", plan.key, PyNone, th.loads, th.returned)]
                    /\ UNCHANGED PROMPT_CACHE
             [] plan.kind = "default" ->
                    /\ PROMPT_CACHE' = PyDict(DictSetItem(PROMPT_CACHE.v, cache_key,
                                                          PyStr(DEFAULT_PROMPT)))
                    /\ threads' = [threads EXCEPT ![t] =
                                       ThreadReturn(th, PyStr(DEFAULT_PROMPT))]
    /\ ThreadUnchanged

\* lines 152-154 in a thread: the object is read into the thread's local
ThreadFetchFound(t) ==
    /\ threads[t].pc = "fetch"
    /\ HasObject(bucket, threads[t].key)
    /\ threads' = [threads EXCEPT ![t] =
                       Thread("store", threads[t].key,
                              PyStr(ObjectBody(bucket, threads[t].key)),
                              threads[t].loads, threads[t].returned)]
    /\ UNCHANGED PROMPT_CACHE
    /\ ThreadUnchanged

\* lines 159-164 in a thread
ThreadFetchNoSuchKey(t) ==
    /\ threads[t].pc = "fetch"
    /\ ~HasObject(bucket, threads[t].key)
    /\ threads' = [threads EXCEPT ![t] = ThreadIdle(threads[t])]
    /\ UNCHANGED PROMPT_CACHE
    /\ ThreadUnchanged

\* lines 165-170 in a thread
ThreadFetchFailed(t) ==
    /\ threads[t].pc = "fetch"
    /\ threads' = [threads EXCEPT ![t] = ThreadIdle(threads[t])]
    /\ UNCHANGED PROMPT_CACHE
    /\ ThreadUnchanged

\* lines 157-158 in a thread: the local is stored, whatever the cache holds
\* by now, and returned
ThreadStore(t) ==
    /\ threads[t].pc = "store"
    /\ PROMPT_CACHE' = PyDict(DictSetItem(PROMPT_CACHE.v, threads[t].key,
                                          threads[t].prompt_template))
    /\ threads' = [threads EXCEPT ![t] =
                       ThreadReturn(threads[t], threads[t].prompt_template)]
    /\ ThreadUnchanged

NextConcurrent ==
    \/ \E t \in Threads, key \in ThreadKeys : ThreadCall(t, key)
    \/ \E t \in Threads : ThreadLoad(t)
    \/ \E t \in Threads : ThreadFetchFound(t)
    \/ \E t \in Threads : ThreadFetchNoSuchKey(t)
    \/ \E t \in Threads : ThreadFetchFailed(t)
    \/ \E t \in Threads : ThreadStore(t)
    \/ RemoteChange

SpecConcurrent == InitConcurrent /\ [][NextConcurrent]_vars

\* ------------------------------------------------------------------------
\* Properties of lambda_handler (specification Spec)
\* ------------------------------------------------------------------------
ResultGet(k) == DictGet(result.value, k)
ParsedGet(k) == DictGet(validation_result.value.parsed_json, k)
IsTrue(value) == value.t = "bool" /\ value.v = TRUE
StartsWithMarker(value) ==
    value.t = "str" /\ value.v # <<>> /\ value.v[1] = MarkerPrefix

\* C1: fail-closed.  A returned verdict has safe = true only if
\* validate_model_response accepted the model's text and the parsed object's
\* safe is the boolean true; for every text the validator rejects, the verdict
\* is safe = false with the reasoning 'Lambda deterministic failure: '
\* followed by the validator's reason.
C1_FailClosed ==
    pc = "returned" =>
        /\ validation_result = CallValidate(model_output)
        /\ IsTrue(ResultGet(KeySafe)) =>
            /\ Accepted(validation_result)
            /\ IsTrue(ParsedGet(KeySafe))
        /\ Rejected(validation_result) =>
            result = Returns(Verdict(PyBool(FALSE),
                                     PyStr(<<MarkerPrefix>> \o validation_result.value.reason)))

\* a call that returned after the validator rejected the model's prose
C1_Witness ==
    /\ pc = "returned"
    /\ model_output = PyStr(<<"words">>)
    /\ Rejected(validation_result)
    /\ ~IsTrue(ResultGet(KeySafe))

\* C2: the reasoning of the fail-closed path carries the marker prefix, and
\* no verdict returned on the accepted path has a reasoning that begins with
\* 'Lambda deterministic failure: ', so the verdict alone tells the two apart.
C2_MarkerDistinguishes ==
    pc = "returned" =>
        /\ Rejected(validation_result) => StartsWithMarker(ResultGet(KeyReasoning))
        /\ Accepted(validation_result) => ~StartsWithMarker(ResultGet(KeyReasoning))

\* C3: when the validator accepts the model's text, the handler returns
\* exactly the two fields safe and reasoning, with the parsed object's values
\* unchanged: nothing trimmed, prefixed or rewritten.
C3_AcceptedVerbatim ==
    pc = "returned" /\ Accepted(validation_result) =>
        /\ result.raised = "none"
        /\ result.value.t = "dict"
        /\ Len(result.value.v) = 2
        /\ DictKeySet(result.value) = {KeySafe, KeyReasoning}
        /\ ResultGet(KeySafe) = ParsedGet(KeySafe)
        /\ ResultGet(KeyReasoning) = ParsedGet(KeyReasoning)
        /\ \A b \in BOOLEAN, r \in StrSpecs, style \in Styles :
            model_output = PyStr(VerdictText(b, r, style)) =>
                /\ ResultGet(KeySafe) = PyBool(b)
                /\ ResultGet(KeyReasoning) = PyStr(r.val)

\* a call that returned the model's reasoning with the spaces around it
C3_Witness ==
    /\ pc = "returned"
    /\ Accepted(validation_result)
    /\ ResultGet(KeySafe) = PyBool(TRUE)
    /\ ResultGet(KeyReasoning) = PyStr(<<" ", "x", " ">>)

\* ------------------------------------------------------------------------
\* Properties of validate_model_response (specification SpecValidator)
\* ------------------------------------------------------------------------
Validated == stage \in {"validated", "revalidated", "fenced"}
Untrimmed(s) == s # <<>> /\ (Head(s) \in PyWhitespace \/ s[Len(s)] \in PyWhitespace)
ExactKeys == {KeySafe, KeyReasoning}
\* the candidate of the text parses to a JSON object
CandidateIsObject ==
    JsonLoads(JsonStr(text)).st = "ok" /\ JsonLoads(JsonStr(text)).val.t = "dict"
CandidateObject == JsonLoads(JsonStr(text)).val

\* C4: the validator accepts only when the trimmed text is, character for
\* character, the candidate JSON text alone or fence, json, newline, candidate,
\* newline, fence, the candidate parsing to an object with exactly the keys
\* safe (a boolean) and reasoning (a string).
C4_AcceptedOnlyIfExact ==
    Validated /\ Accepted(outcome) =>
        LET trimmed == Strip(text)
            candidate == JsonStr(text)
            loaded == JsonLoads(candidate)
        IN  /\ trimmed = candidate \/ trimmed = InFence(candidate)
            /\ loaded.st = "ok"
            /\ loaded.val.t = "dict"
            /\ DictKeySet(loaded.val) = ExactKeys
            /\ DictGet(loaded.val, KeySafe).t = "bool"
            /\ DictGet(loaded.val, KeyReasoning).t = "str"
            /\ outcome.value.parsed_json = loaded.val

\* a fenced verdict with white space after the fence, accepted
C4_Witness ==
    /\ stage = "validated"
    /\ text = InFence(Verdict1) \o <<" ", "\n">>
    /\ Accepted(outcome)

\* C5: every raw JSON object text with exactly the keys safe (a boolean) and
\* reasoning (a string) and nothing around it is accepted, with the values
\* the text spells.
C5_RawVerdictAccepted ==
    \A b \in BOOLEAN, r \in StrSpecs, style \in Styles :
        Validated /\ text \in {VerdictText(b, r, style), VerdictTextSwapped(b, r, style)} =>
            /\ Accepted(outcome)
            /\ outcome.value.parsed_json.t = "dict"
            /\ Len(outcome.value.parsed_json.v) = 2
            /\ DictKeySet(outcome.value.parsed_json) = ExactKeys
            /\ DictGet(outcome.value.parsed_json, KeySafe) = PyBool(b)
            /\ DictGet(outcome.value.parsed_json, KeyReasoning) = PyStr(r.val)

\* a verdict written one member to a line, its reasoning holding an escape
C5_Witness ==
    /\ stage = "validated"
    /\ text = VerdictText(FALSE, [lit |-> <<"a", "\\n", "b">>, val |-> <<"a", "\n", "b">>],
                          "pretty")
    /\ Accepted(outcome)
    /\ DictGet(outcome.value.parsed_json, KeyReasoning) = PyStr(<<"a", "\n", "b">>)

\* C6 as stated: for every payload accepted as raw JSON, the payload in a
\* json fence is accepted too, with the same parsed values.
C6_FenceInvariance ==
    stage = "fenced" =>
        /\ text = InFence(prior.text)
        /\ Accepted(outcome)
        /\ outcome.value.parsed_json = prior.outcome.value.parsed_json

\* C6 amended: for every payload without leading or trailing white space
\* that is accepted as raw JSON, the payload in a json fence is accepted too,
\* with the same parsed values.
C6_FenceInvarianceTrimmed ==
    stage = "fenced" /\ ~Untrimmed(prior.text) =>
        /\ text = InFence(prior.text)
        /\ Accepted(outcome)
        /\ outcome.value.parsed_json = prior.outcome.value.parsed_json

\* a verdict of several lines, accepted raw and then in its fence
C6_Witness ==
    /\ stage = "fenced"
    /\ prior.text = VerdictText(FALSE, [lit |-> <<"x">>, val |-> <<"x">>], "pretty")
    /\ Accepted(prior.outcome)
    /\ Accepted(outcome)

\* C7: idempotence.  For every accepted text, its canonical reconstruction
\* (the candidate alone if unfenced, the candidate in its fence if fenced) is
\* accepted again with the same parsed values.
C7_Idempotence ==
    stage = "revalidated" =>
        /\ text = IF JsonPatternMatch(Strip(prior.text)).matched
                  THEN InFence(prior.candidate)
                  ELSE prior.candidate
        /\ Accepted(outcome)
        /\ outcome.value.parsed_json = prior.outcome.value.parsed_json

\* a fenced text with white space around it, accepted, and its
\* reconstruction validated after it
C7_Witness ==
    /\ stage = "revalidated"
    /\ prior.text = <<" ", "\n">> \o InFence(Verdict1)
    /\ text = InFence(Verdict1)
    /\ Accepted(outcome)

\* C8: the validator is total: for every input string it returns an outcome,
\* valid or invalid with a reason, and never raises.
C8_NeverRaises ==
    Validated =>
        /\ outcome.raised = "none"
        /\ outcome.value.valid \in BOOLEAN
        /\ outcome.value.valid \/ outcome.value.reason # <<>>

\* object texts whose members are known: <<text, set of keys>>
KeyedObjects ==
    { <<ObjectText(ms, "compact"), {ms[i][1] : i \in 1..Len(ms)}>> :
        ms \in UNION { [1..n -> MemberChoices] : n \in 0..MaxMembers } }
WrongKeyObjects == { o[1] : o \in { k \in KeyedObjects : k[2] # ExactKeys } }
WrongKeyTexts == WrongKeyObjects \union { InFence(o) : o \in WrongKeyObjects }
IncorrectKeys(o) == Rejected(o) /\ o.value.reason[1] = "JSON has incorrect keys: "

\* C9: a candidate that parses to a JSON object is rejected with the
\* incorrect-keys reason unless its key set is exactly {safe, reasoning}: a
\* missing key, an extra key, a key in another letter case.
C9_WrongKeysRejected ==
    Validated =>
        /\ text \in WrongKeyTexts => IncorrectKeys(outcome)
        /\ CandidateIsObject /\ DictKeySet(CandidateObject) # ExactKeys =>
            IncorrectKeys(outcome)

\* the object with Safe for safe, rejected for its keys
C9_Witness ==
    /\ stage = "validated"
    /\ text = ObjectText(<< <<<<"Safe">>, <<"true">> >>, <<KeyReasoning, StrLit(<<"x">>)>> >>,
                         "compact")
    /\ IncorrectKeys(outcome)

NotBoolean(o, t) == Rejected(o) /\ o.value.reason = <<"\"safe\" value is not a boolean, got ", t>>
NotString(o, t) ==
    Rejected(o) /\ o.value.reason = <<"\"reasoning\" value is not a string, got ", t>>
TypedObject(v1, v2) == ObjectText(<< <<KeySafe, v1>>, <<KeyReasoning, v2>> >>, "spaced")
JsonValueTypes == {"bool", "NoneType", "int", "float", "str", "list", "dict"}

\* C10: a candidate object with exactly the keys safe and reasoning is
\* rejected with 'not a boolean' unless safe is a JSON boolean, and with
\* 'not a string' unless reasoning is a JSON string.
C10_WrongTypesRejected ==
    Validated =>
        /\ \A s1 \in ValueSpecs, s2 \in ValueSpecs :
            /\ text \in {TypedObject(s1.txt, s2.txt), InFence(TypedObject(s1.txt, s2.txt))}
            /\ s1.t \in JsonValueTypes
            /\ s2.t \in JsonValueTypes
            => /\ s1.t # "bool" => NotBoolean(outcome, s1.t)
               /\ s1.t = "bool" /\ s2.t # "str" => NotString(outcome, s2.t)
               /\ s1.t = "bool" /\ s2.t = "str" => Accepted(outcome)
        /\ CandidateIsObject /\ DictKeySet(CandidateObject) = ExactKeys =>
            LET safe == DictGet(CandidateObject, KeySafe)
                reasoning == DictGet(CandidateObject, KeyReasoning)
            IN  /\ safe.t # "bool" => NotBoolean(outcome, safe.t)
                /\ safe.t = "bool" /\ reasoning.t # "str" => NotString(outcome, reasoning.t)

\* safe the boolean true and reasoning null, rejected for the null
C10_Witness ==
    /\ stage = "validated"
    /\ text = TypedObject(<<"true">>, <<"null">>)
    /\ NotString(outcome, "NoneType")

InvalidJson(o) == Rejected(o) /\ o.value.reason[1] = "Invalid JSON: "
ExtraTextInFence(o) ==
    Rejected(o) /\ o.value.reason = <<"Extra text detected outside JSON code fence">>
Pretty1 == VerdictText(FALSE, [lit |-> <<"x">>, val |-> <<"x">>], "pretty")
FourTicks == Fence \o <<Backtick>>

\* a verdict with text outside the contracted shape: words after the raw
\* object, text before the opening fence, text after the closing fence (ending
\* in words, or in a fence line of its own), the tag in capitals, fences of
\* four backticks
OutsideTexts ==
    UNION { { v \o <<" ", "words">>,
              <<"words", "\n">> \o InFence(v),
              InFence(v) \o <<"\n", "words">>,
              InFence(v) \o <<"\n", "words">> \o CloseFence,
              Fence \o <<"JSON", "\n">> \o v \o CloseFence,
              FourTicks \o <<"json", "\n">> \o v \o <<"\n">> \o FourTicks,
              FourTicks \o <<"json", "\n">> \o v \o CloseFence,
              OpenFence \o <<"\n">> \o v \o <<"\n">> \o FourTicks } : v \in {Verdict1, Pretty1} }

\* the trimmed text as a whole begins with the fence and its tag and ends
\* with a newline and a fence
FenceAtBothEnds(s) ==
    /\ StartsWithAt(s, 1, OpenFence)
    /\ Len(s) >= Len(CloseFence)
    /\ SubSeq(s, Len(s) - Len(CloseFence) + 1, Len(s)) = CloseFence

CrLfTexts ==
    UNION { { OpenFence \o <<"\r", "\n">> \o v \o <<"\r">> \o CloseFence,
              OpenFence \o <<"\r", "\n">> \o v \o CloseFence,
              OpenFence \o <<"\n">> \o v \o <<"\r">> \o CloseFence } : v \in {Verdict1, Pretty1} }

\* C12: a fenced text with carriage return + newline pairs does not match
\* the fenced shape; the whole trimmed text is the candidate, and it is
\* rejected.
C12_CrLfDoesNotMatch ==
    Validated /\ text \in CrLfTexts =>
        /\ ~Fenced(text)
        /\ JsonStr(text) = Strip(text)
        /\ Rejected(outcome)

\* a verdict in its fence with white space at the sites between the fence
\* markers and the payload: after the tag, before the payload, after the payload
NoiseSites == {4, 6, 7}
NoiseWrappings == UNION { WrappingsAt(D) : D \in (SUBSET NoiseSites) \ {{}} } \intersect Wrappings
NoiseTexts == { Wrap(w, v) : w \in NoiseWrappings, v \in {Verdict1, Pretty1} }

\* C13: a fenced verdict with formatting noise between the fence markers
\* and the payload (a tab or spaces before the payload, blank lines after the
\* opening line or before the closing fence, spaces after the tag) is rejected
\* with 'Extra text detected', never accepted.
C13_NoiseInFenceRejected ==
    Validated /\ text \in NoiseTexts => ExtraTextInFence(outcome)

\* a tab right after the opening fence line
C13_Witness ==
    /\ stage = "validated"
    /\ text = OpenFence \o <<"\n", "\t">> \o Verdict1 \o CloseFence
    /\ ExtraTextInFence(outcome)

\* ------------------------------------------------------------------------
\* Properties of validate_prompt_override_key (specification SpecKey)
\* ------------------------------------------------------------------------
KeyChecked == key_result # NotCalled
\* the characters of a key, counted chunk by chunk
KeyCharacters(k) == StrLen(k)
HasChunk(k, c) == \E i \in 1..Len(k) : k[i] = c
WellFormedKey(k) ==
    /\ KeyCharacters(k) <= 1024
    /\ ~HasChunk(k, Nul)
    /\ Head(k) = PromptPrefix
    /\ ~HasChunk(k, "..")
    /\ k[Len(k)] \notin {"/", "other/", PromptPrefix}

\* C14: validate_prompt_override_key accepts the empty key, and accepts a
\* non-empty key exactly when it has at most 1024 characters, no NUL, the
\* prefix custom_prompts/, no '..' and no '/' at its end; every other key is
\* rejected with an error (1024 characters pass, 1025 do not).
C14_KeyAcceptedIffWellFormed ==
    KeyChecked =>
        /\ key_result.raised \in {"none", "ValueError"}
        /\ key_result.raised = "none" <=> (override_key = <<>> \/ WellFormedKey(override_key))
        /\ override_key = <<PromptPrefix, LongName, "a.txt">> => key_result.raised = "none"
        /\ override_key = <<PromptPrefix, LongName, "a.txt", "x">> =>
            key_result.raised = "ValueError"

\* a key of exactly 1024 characters, accepted
C14_Witness ==
    /\ override_key = <<PromptPrefix, LongName, "a.txt">>
    /\ KeyCharacters(override_key) = 1024
    /\ key_result = Returns(PyNone)

\* ------------------------------------------------------------------------
\* Properties of load_prompt inside lambda_handler (specification Spec)
\* ------------------------------------------------------------------------
IllFormedKey(k) == k # <<>> /\ ~WellFormedKey(k)
OnlyValidation(log) == \A i \in 1..Len(log) : log[i] = "validate_prompt_override_key"
\* the step about to be taken validates a key that fails: the deployed key at
\* line 206, the effective key at line 132
ValidatesIllFormedKey ==
    \/ pc = "select" /\ IllFormedKey(Strip(EnvGetOrEmpty("PROMPT_OVERRIDE_KEY")))
    \/ pc = "load" /\ IllFormedKey(Strip(prompt_override_key.v))

\* C15: a key that fails validation is rejected before any fetch: the call
\* raises before any cache lookup, any fetch from the bucket and any model
\* invocation, and the template cache is left as it was.
C15_RejectedBeforeFetch ==
    [][ValidatesIllFormedKey /\ pc' # pc =>
            /\ pc' = "raised"
            /\ result'.raised = "ValueError"
            /\ PROMPT_CACHE' = PROMPT_CACHE
            /\ OnlyValidation(calls')]_vars

\* a call with a key outside custom_prompts/ has raised, with a template
\* for another key in the cache
C15_Witness ==
    /\ pc = "raised"
    /\ event.prompt_override_key = PyStr(BadKey)
    /\ result.raised = "ValueError"
    /\ calls = <<"validate_prompt_override_key">>
    /\ HasKey(PROMPT_CACHE, K1)

\* C16: precedence.  With the deployed key a valid non-empty K1 and the
\* request's prompt_override_key an explicit empty string, the effective key
\* of the request is empty: the default template is used, not the one at K1.
C16_EmptyRequestKeyMeansDefault ==
    /\ event # PyNone
    /\ event.prompt_override_key = PyStr(<<>>)
    /\ Strip(EnvGetOrEmpty("PROMPT_OVERRIDE_KEY")) = K1
    => /\ pc = "load" => prompt_override_key = PyStr(<<>>)
       /\ pc = "fetch" => FALSE
       /\ pc = "config" => prompt_template = PyStr(DEFAULT_PROMPT)

\* the key load_prompt looks up for the argument it is given at line 214
LoadKey == Strip(prompt_override_key.v)
CacheKey == IF LoadKey # <<>> THEN LoadKey ELSE CacheDefault

\* a step of load_prompt that begins with the template of its key cached;
\* the entry under the sentinel is the empty key's, not that of a key
\* spelled 'DEFAULT'
LoadsCachedKey ==
    /\ pc = "load"
    /\ pc' # pc
    /\ LoadKey # SentinelKey
    /\ HasKey(PROMPT_CACHE, CacheKey)

\* the calls a step adds to the log
NewCalls == SubSeq(calls', Len(calls) + 1, Len(calls'))

\* every entry of the cache is in the cache after the step, with its value
EntriesKept ==
    \A k \in DictKeySet(PROMPT_CACHE) :
        /\ HasKey(PROMPT_CACHE', k)
        /\ DictGet(PROMPT_CACHE', k) = DictGet(PROMPT_CACHE, k)

\* C17: a template, once loaded for a key, is what every later load_prompt
\* of that key returns, with no fetch, whatever becomes of the object in the
\* bucket: no step overwrites or removes an entry of the cache, the load that
\* fetched cached what it returned, and a load of a cached key returns the
\* entry and calls neither s3.get_object nor anything that stores.
C17_CachedForLife ==
    [][/\ EntriesKept
       /\ pc = "fetch" /\ pc' = "config" =>
              /\ HasKey(PROMPT_CACHE', prompt_override_key.v)
              /\ DictGet(PROMPT_CACHE', prompt_override_key.v) = prompt_template'
       /\ LoadsCachedKey =>
              /\ pc' = "config"
              /\ prompt_template' = DictGet(PROMPT_CACHE, CacheKey)
              /\ \A i \in 1..Len(NewCalls) :
                     NewCalls[i] \notin {"s3.get_object", "cache store"}]_vars

\* a cached key loaded again after its object was replaced or deleted
C17_Witness ==
    /\ pc = "config"
    /\ Len(calls) >= 2
    /\ calls[Len(calls)] = "cache hit"
    /\ prompt_override_key = PyStr(K1)
    /\ prompt_template = PyStr(Template1)
    /\ \/ ~HasObject(bucket, K1)
       \/ ObjectBody(bucket, K1) = Template2

\* C18 as stated: a load of a cached key does not execute the validation of
\* the key.
C18_HitSkipsValidation ==
    [][LoadsCachedKey =>
           \A i \in 1..Len(NewCalls) : NewCalls[i] # "validate_prompt_override_key"]_vars

\* C18, amended: a load of a cached key executes the validation of the key
\* first, as every load does, and the validation passes; the cache is then
\* looked up and its entry returned, and nothing else is called.
C18_HitValidatesFirst ==
    [][LoadsCachedKey =>
           /\ ValidatePromptOverrideKey(LoadKey).raised = "none"
           /\ NewCalls = <<"validate_prompt_override_key", "cache hit">>
           /\ pc' = "config"
           /\ PROMPT_CACHE' = PROMPT_CACHE]_vars

\* the second request for K1 with no key deployed: validated, then served
\* from the cache
C18_Witness ==
    /\ pc = "config"
    /\ prompt_override_key = PyStr(K1)
    /\ calls = <<"validate_prompt_override_key", "cache hit">>
    /\ HasKey(PROMPT_CACHE, K1)
    /\ prompt_template = DictGet(PROMPT_CACHE, K1)

\* the texts the loads of a key have returned, in any thread
ReturnedTexts(key) ==
    UNION { { p[2] : p \in { q \in threads[t].returned : q[1] = key } } : t \in Threads }

LoadsAgree == \A key \in ThreadKeys : Cardinality(ReturnedTexts(key)) <= 1

\* C19: two load_prompt calls that interleave on a key not yet cached may
\* both fetch, but the entry of the cache never changes once written and
\* all loads of the key, concurrent or later, return the same text, also
\* when the object is replaced between the two fetches.
C19_RaceBenign == [][EntriesKept /\ LoadsAgree']_vars

\* the chunks of part somewhere in s
Names(s, part) ==
    \E i \in 1..(Len(s) - Len(part) + 1) : SubSeq(s, i, i + Len(part) - 1) = part

\* a step in which the fetch of a well-formed key fails
FetchFails == pc = "fetch" /\ pc' = "raised"

\* a step of load_prompt on a well-formed key that is not cached
LoadsUncachedKey ==
    /\ pc = "load"
    /\ pc' # pc
    /\ LoadKey # <<>>
    /\ ValidatePromptOverrideKey(LoadKey).raised = "none"
    /\ ~HasKey(PROMPT_CACHE, LoadKey)
    /\ EnvGet("PROMPT_BUCKET").t # "unset"

\* C20: a fetch that fails raises, ValueError with the key and the bucket in
\* its message and only for an object that is not there, else the error of
\* the fetch itself; the cache gets no entry for the key; and a load of a
\* well-formed key with no entry goes to the fetch, so the next call for
\* the key tries again.
C20_FailedFetchNotCached ==
    [][/\ FetchFails =>
              /\ calls' = Append(calls, "s3.get_object")
              /\ PROMPT_CACHE' = PROMPT_CACHE
              /\ ~HasKey(PROMPT_CACHE', prompt_override_key.v)
              /\ \/ /\ result'.raised = "ValueError"
                    /\ ~HasObject(bucket, prompt_override_key.v)
                    /\ Names(result'.value.v, prompt_override_key.v)
                    /\ Names(result'.value.v, EnvGet("PROMPT_BUCKET").v)
                 \/ result' \in { Raises(e) : e \in S3Errors }
       /\ pc = "fetch" /\ pc' # pc /\ ~HasObject(bucket, prompt_override_key.v) =>
              FetchFails
       /\ LoadsUncachedKey =>
              /\ pc' = "fetch"
              /\ prompt_override_key' = PyStr(LoadKey)
              /\ PROMPT_CACHE' = PROMPT_CACHE]_vars

\* the fetch of K1 found no object: ValueError, nothing cached
C20_Witness ==
    /\ pc = "raised"
    /\ prompt_override_key = PyStr(K1)
    /\ result.raised = "ValueError"
    /\ Names(result.value.v, K1)
    /\ calls[Len(calls)] = "s3.get_object"
    /\ ~HasKey(PROMPT_CACHE, K1)

\* the configuration or the request lacks what lines 217-222 require
MissingEnv(name) == EnvGet(name).t = "unset"
NotNumeric(name) == EnvGet(name).t = "str" /\ ~ParsesAsFloat(EnvGet(name).v)
ConfigFatal ==
    \/ \E name \in {"MODEL_ID", "MAX_TOKENS", "TEMPERATURE"} : MissingEnv(name)
    \/ \E name \in {"MAX_TOKENS", "TEMPERATURE"} : NotNumeric(name)
    \/ event.user_input.t = "absent"

\* an envelope without output, message, content or text, or with no block
Lacks(obj, k) == obj.t = "dict" /\ ~HasKey(obj, k)
EnvelopeFatal(resp) ==
    \/ Lacks(resp, KeyOutput)
    \/ ~Lacks(resp, KeyOutput) /\ Lacks(DictGet(resp, KeyOutput), KeyMessage)
    \/ \E content \in {PyList(<<>>)} \union { PyList(<<PyDict(<<>>)>>) } :
           resp = Envelope(content)
    \/ resp = Dict1(KeyOutput, Dict1(KeyMessage, PyDict(<<>>)))

IsVerdict(value) == value.t = "dict" /\ DictKeySet(value) = {KeySafe, KeyReasoning}
RaisesError == pc' = "raised" /\ result'.raised \notin {"none", "running", "not called"}

\* C21: the fatal tier is never turned into a verdict.  The step that reads
\* a configuration lacking MODEL_ID, MAX_TOKENS or TEMPERATURE, or with a
\* MAX_TOKENS or TEMPERATURE that is no number, or a request without
\* user_input, raises; a failing model invocation raises its error; the
\* step that reads an envelope lacking output, message, content or text, or
\* with an empty content list, raises; and a request that returns a
\* {safe, reasoning} result had none of these.
C21_FatalNeverVerdict ==
    [][/\ pc = "config" /\ pc' # pc /\ ConfigFatal => RaisesError
       /\ pc = "converse" /\ pc' # pc /\ pc' # "extract" =>
              RaisesError /\ result'.raised \in ConverseErrors
       /\ pc = "extract" /\ pc' # pc /\ EnvelopeFatal(response) => RaisesError
       /\ pc' = "returned" =>
              /\ IsVerdict(result'.value)
              /\ ~ConfigFatal
              /\ ~EnvelopeFatal(response)
              /\ Len(SelectSeq(calls', LAMBDA c : c = "converse")) = 1]_vars

\* the model answered with an empty content list: ValueError, no verdict
C21_Witness ==
    /\ pc = "raised"
    /\ response = Envelope(PyList(<<>>))
    /\ result.raised = "ValueError"
    /\ calls[Len(calls)] = "converse"

\* the place of a call in the order of the handler's steps
CallRank(c) ==
    CASE c = "validate_prompt_override_key" -> 1
      [] c \in {"cache hit", "cache miss"} -> 2
      [] c = "s3.get_object" -> 3
      [] c = "cache store" -> 4
      [] c = "converse" -> 5
      [] c = "validate_model_response" -> 6

Count(log, c) == Len(SelectSeq(log, LAMBDA x : x = c))
Called(c) == Count(calls, c) > 0

\* C22: the steps of a request run in the order template load,
\* configuration and user_input, assembly, model invocation, validation,
\* verdict.  The calls of a request are in that order; the model is invoked
\* at most once, with the template loaded, the configuration and the input
\* read and the request text assembled from them; the validator runs only
\* on an answer of that one invocation; a result is returned only after the
\* validator ran; and a request that ended in the invocation's error made
\* one invocation and no call after it.
C22_FixedOrder ==
    /\ \A i, j \in 1..Len(calls) : i < j => CallRank(calls[i]) <= CallRank(calls[j])
    /\ Count(calls, "converse") <= 1
    /\ Count(calls, "validate_model_response") <= 1
    /\ pc \in {"converse", "extract", "validate", "resolve", "returned"} \/ Called("converse") =>
           /\ prompt_template.t = "str"
           /\ ~ConfigFatal
           /\ user_input = event.user_input
           /\ full_prompt = PyStr(FullPrompt(prompt_template.v, user_input.v))
    /\ Called("validate_model_response") =>
           /\ Called("converse")
           /\ model_output = ExtractText(response).value
    /\ pc = "returned" =>
           /\ calls[Len(calls)] = "validate_model_response"
           /\ validation_result.raised = "none"
           /\ result = Returns(ResolveVerdict(validation_result.value))
    /\ pc = "raised" /\ Called("converse") /\ ~Called("validate_model_response") =>
           /\ Count(calls, "converse") = 1
           /\ calls[Len(calls)] = "converse"

\* the invocation failed: one converse call, the last of the request
C22_Witness ==
    /\ pc = "raised"
    /\ result = Raises("ReadTimeoutError")
    /\ full_prompt.t = "str"
    /\ Count(calls, "converse") = 1

Assembled == full_prompt.t = "str"
Markers(s) == Count(s, EndMarker)

\* C23 as stated: the request text is template, newline, user_input,
\* newline, marker with the input verbatim, and whenever the input contains
\* the closing marker the request text contains it exactly twice.
C23_MarkerExactlyTwice ==
    Assembled /\ Markers(user_input.v) >= 1 => Markers(full_prompt.v) = 2

\* C23, amended: the request text is the template, a newline, the input
\* as it is, a newline and the marker, each at its place and nothing else;
\* so the text contains the marker once more than the template and the
\* input together, which is twice for an input with one marker under a
\* template with none.
C23_VerbatimInput ==
    Assembled =>
        LET t == prompt_template.v
            u == user_input.v
            p == full_prompt.v
        IN  /\ user_input = event.user_input
            /\ Len(p) = Len(t) + Len(u) + 3
            /\ SubSeq(p, 1, Len(t)) = t
            /\ p[Len(t) + 1] = "\n"
            /\ SubSeq(p, Len(t) + 2, Len(t) + 1 + Len(u)) = u
            /\ p[Len(p) - 1] = "\n"
            /\ p[Len(p)] = EndMarker
            /\ Markers(p) = Markers(t) + Markers(u) + 1
            /\ Markers(t) = 0 /\ Markers(u) = 1 => Markers(p) = 2

\* an input with one marker under the default template: two markers
C23_Witness ==
    /\ Assembled
    /\ prompt_template = PyStr(DEFAULT_PROMPT)
    /\ Markers(user_input.v) = 1
    /\ Markers(full_prompt.v) = 2

\* a request with no key of its own under a deployment with no key
NoOverride ==
    /\ event.prompt_override_key.t = "absent"
    /\ EnvGet("PROMPT_OVERRIDE_KEY").t = "unset"

\* C24: the handler takes its template from PROMPT_TEMPLATE.  With the
\* variable set the request text starts with its value, and with the
\* variable unset a request ends in a KeyError naming PROMPT_TEMPLATE.
C24_TemplateFromEnvironment ==
    /\ Assembled /\ NoOverride /\ EnvGet("PROMPT_TEMPLATE").t = "str" =>
           SubSeq(full_prompt.v, 1, Len(EnvGet("PROMPT_TEMPLATE").v))
               = EnvGet("PROMPT_TEMPLATE").v
    /\ pc \in {"returned", "raised"} /\ NoOverride /\ EnvGet("PROMPT_TEMPLATE").t = "unset" =>
           /\ pc = "raised"
           /\ result = RaisesMsg("KeyError", <<"PROMPT_TEMPLATE">>)

\* the checks of the validator, in the order of lines 338-402, and which of them
\* the text fails, each taken by itself
Checks == 1..6
FailsCheckOf(loaded, n) ==
    LET isObject == loaded.st = "ok" /\ loaded.val.t = "dict"
    IN  CASE n = 1 -> loaded.st = "JSONDecodeError"
          [] n = 2 -> loaded.st = "ok" /\ loaded.val.t # "dict"
          [] n = 3 -> isObject /\ DictKeySet(loaded.val) # ExactKeys
          [] n = 4 -> /\ isObject
                      /\ HasKey(loaded.val, KeySafe)
                      /\ DictGet(loaded.val, KeySafe).t # "bool"
          [] n = 5 -> /\ isObject
                      /\ HasKey(loaded.val, KeyReasoning)
                      /\ DictGet(loaded.val, KeyReasoning).t # "str"
          [] n = 6 -> Strip(text) \notin {JsonStr(text), InFence(JsonStr(text))}

\* the check a rejection reports, by the words of its reason
ReportedCheck(o) ==
    CASE o.value.reason[1] = "Invalid JSON: " -> 1
      [] o.value.reason[1] = "JSON is not a dictionary" -> 2
      [] o.value.reason[1] = "JSON has incorrect keys: " -> 3
      [] o.value.reason[1] = "\"safe\" value is not a boolean, got " -> 4
      [] o.value.reason[1] = "\"reasoning\" value is not a string, got " -> 5
      [] o.value.reason[1] \in {"Extra text detected outside JSON code fence",
                                "Extra text detected outside JSON"} -> 6

FailedChecks ==
    LET loaded == JsonLoads(JsonStr(text))
    IN  { n \in Checks : FailsCheckOf(loaded, n) }
TabFencedWrongKeys ==
    OpenFence \o <<"\n", "\t">>
        \o ObjectText(<< <<KeySafe, <<"true">> >>, <<KeyReasoning, StrLit(<<"x">>)>>,
                         <<<<"extra">>, <<"1">> >> >>, "spaced")
        \o CloseFence
BothTypesWrong == TypedObject(<<"1">>, <<"null">>)

\* C25: the validator reports the first check that fails, in the order
\* parse, object, key set, type of safe, type of reasoning, extra content:
\* a text is rejected exactly when it fails some check, and the reason is
\* that of the least failed check; a fenced object with a tab before it and
\* a wrong key set is reported for its keys, an object with a safe that is
\* no boolean and a reasoning that is no string for its safe.
C25_FirstFailureReported ==
    Validated /\ outcome.raised = "none" =>
        LET failed == FailedChecks
        IN  /\ Accepted(outcome) <=> failed = {}
            /\ Rejected(outcome) => ReportedCheck(outcome) = SetMin(failed)
            /\ text = TabFencedWrongKeys => IncorrectKeys(outcome) /\ 6 \in failed
            /\ text = BothTypesWrong => NotBoolean(outcome, "int") /\ 5 \in failed

\* the fenced object with a tab and a third key: two checks fail, the keys
\* are reported
C25_Witness ==
    /\ stage = "validated"
    /\ text = TabFencedWrongKeys
    /\ FailedChecks = {3, 6}
    /\ ReportedCheck(outcome) = 3

ExtraTextUnfenced(o) == Rejected(o) /\ o.value.reason = <<"Extra text detected outside JSON">>
TabFencedPretty == OpenFence \o <<"\n", "\t">> \o Pretty1 \o CloseFence

\* C26: the reconstruction check rejects fenced texts only.  For a text
\* that does not match the fenced shape the candidate is the trimmed text,
\* so no text is rejected with 'Extra text detected outside JSON' and an
\* unfenced rejection is one of the five earlier checks; a text rejected
\* by the reconstruction check is fenced and its candidate is a verdict the
\* parser and the other checks accept, as for a tab before the payload.
C26_ExtraTextOnlyFenced ==
    Validated /\ outcome.raised = "none" =>
        /\ ~ExtraTextUnfenced(outcome)
        /\ ~Fenced(text) =>
               /\ JsonStr(text) = Strip(text)
               /\ Rejected(outcome) => ReportedCheck(outcome) \in 1..5
        /\ ExtraTextInFence(outcome) =>
               /\ Fenced(text)
               /\ Accepted(ValidateModelResponse(JsonStr(text)))
        /\ text = TabFencedPretty => ExtraTextInFence(outcome)

\* a fenced verdict of several lines with a tab before it: the parser
\* accepts the candidate, the reconstruction check rejects the text
C26_Witness ==
    /\ stage = "validated"
    /\ text = TabFencedPretty
    /\ JsonLoads(JsonStr(text)).st = "ok"
    /\ ExtraTextInFence(outcome)

\* the members of an object text, and the value of the last member of a key
MemberLists == UNION { [1..n -> MemberChoices] : n \in 3..MaxMembers }
MemberKeys(ms) == { ms[i][1] : i \in 1..Len(ms) }
LastMember(ms, k) == ms[SetMax({ i \in 1..Len(ms) : ms[i][1] = k })]
LastValue(ms, k) == JsonLoads(LastMember(ms, k)[2]).val
RepeatedVerdict(ms) ==
    /\ MemberKeys(ms) = ExactKeys
    /\ LastValue(ms, KeySafe).t = "bool"
    /\ LastValue(ms, KeyReasoning).t = "str"
SafeFalseThenTrue ==
    ObjectText(<< <<KeySafe, <<"false">> >>, <<KeySafe, <<"true">> >>,
                  <<KeyReasoning, StrLit(<<"x">>)>> >>, "compact")

\* the texts that repeat a key, each with the values of its last members
RepeatedVerdicts ==
    { [txt |-> ObjectText(ms, "compact"),
       safe |-> LastValue(ms, KeySafe),
       reasoning |-> LastValue(ms, KeyReasoning)] :
        ms \in { l \in MemberLists : RepeatedVerdict(l) } }

\* C27: an object text of more than two members that repeats a key is
\* accepted when its distinct keys are safe and reasoning and the last
\* member of each is a boolean and a string; the accepted verdict has two
\* entries, with the values of the last members.
C27_RepeatedKeysAccepted ==
    Validated =>
        \A r \in RepeatedVerdicts :
            text = r.txt =>
                /\ Accepted(outcome)
                /\ Len(outcome.value.parsed_json.v) = 2
                /\ DictGet(outcome.value.parsed_json, KeySafe) = r.safe
                /\ DictGet(outcome.value.parsed_json, KeyReasoning) = r.reasoning

\* safe false, then safe true, then reasoning: accepted as safe
C27_Witness ==
    /\ stage = "validated"
    /\ text = SafeFalseThenTrue
    /\ Accepted(outcome)
    /\ DictGet(outcome.value.parsed_json, KeySafe) = PyBool(TRUE)

\* C28: the keys of the cache are the sentinel 'DEFAULT' and well-formed
\* remote keys, which start with 'custom_prompts/'; the sentinel is no
\* well-formed key, so no request or deployment can have a remote object
\* cached under it, and its entry, if there, is the built-in template.
C28_CacheKeysValid ==
    /\ \A k \in DictKeySet(PROMPT_CACHE) :
           \/ k = CacheDefault
           \/ /\ k # <<>>
              /\ k[1] = PromptPrefix
              /\ k = Strip(k)
              /\ WellFormedKey(k)
    /\ ~WellFormedKey(CacheDefault)
    /\ HasKey(PROMPT_CACHE, CacheDefault) =>
           DictGet(PROMPT_CACHE, CacheDefault) = PyStr(DEFAULT_PROMPT)

\* a request that named the sentinel as its key, with an object of that
\* name in the bucket and the default template cached: refused, the entry
\* as it was
C28_Witness ==
    /\ pc = "raised"
    /\ event.prompt_override_key = PyStr(SentinelKey)
    /\ HasObject(bucket, SentinelKey)
    /\ HasKey(PROMPT_CACHE, CacheDefault)
    /\ HasKey(PROMPT_CACHE, K1)
    /\ result.raised = "ValueError"

\* the deployment names a key that is not empty and not well-formed
DeployedKey == Strip(EnvGetOrEmpty("PROMPT_OVERRIDE_KEY"))
DeployedKeyIllFormed == DeployedKey # <<>> /\ ~WellFormedKey(DeployedKey)

\* C29: under a deployed key that is not empty and fails validation every
\* request raises ValueError before load_prompt and before the model is
\* invoked, whatever key the request brings: no request gets past the
\* selection of the key, nothing is ever cached, and a request that ended
\* called nothing but the validation.
C29_DeployedKeyChecked ==
    DeployedKeyIllFormed =>
        /\ pc \in {"idle", "select", "raised"}
        /\ PROMPT_CACHE = PyDict(<<>>)
        /\ prompt_template = PyNone
        /\ pc = "raised" =>
               /\ result.raised = "ValueError"
               /\ calls = <<"validate_prompt_override_key">>

\* the request brought a well-formed key of its own and is refused for the
\* deployed one
C29_Witness ==
    /\ DeployedKeyIllFormed
    /\ pc = "raised"
    /\ event.prompt_override_key = PyStr(K1)
    /\ HasObject(bucket, K1)
    /\ result.raised = "ValueError"

\* the template of the request is in the cache under the request's key
TemplateCached ==
    /\ HasKey(PROMPT_CACHE, CacheKey)
    /\ DictGet(PROMPT_CACHE, CacheKey) = prompt_template

\* a step that ends the request with an error after its template was loaded
FailsAfterLoad == pc \in {"config", "converse", "extract", "validate"} /\ pc' = "raised"

\* C30: the template is loaded before the configuration and user_input are
\* read, so a request that fails afterwards leaves its template cached.
\* From the load on the template of the request is in the cache; a step
\* that fails the request leaves the cache as it is, entry included; no
\* step removes or alters an entry; and the next load of the key is served
\* from the cache without a fetch.
C30_FailedRequestKeepsCache ==
    [][/\ prompt_template'.t = "str" => TemplateCached'
       /\ FailsAfterLoad =>
              /\ PROMPT_CACHE' = PROMPT_CACHE
              /\ TemplateCached'
       /\ pc' = "raised" => PROMPT_CACHE' = PROMPT_CACHE
       /\ EntriesKept
       /\ LoadsCachedKey =>
              /\ pc' = "config"
              /\ NewCalls = <<"validate_prompt_override_key", "cache hit">>
              /\ prompt_template' = DictGet(PROMPT_CACHE, CacheKey)]_vars

\* the request fetched its template and failed for a missing MODEL_ID: the
\* template stays cached
C30_Witness ==
    /\ pc = "raised"
    /\ result = RaisesMsg("KeyError", <<"MODEL_ID">>)
    /\ prompt_override_key = PyStr(K1)
    /\ Called("s3.get_object")
    /\ HasKey(PROMPT_CACHE, K1)
    /\ DictGet(PROMPT_CACHE, K1) = prompt_template

====
